---- MODULE Spec2Model ----
(***************************************************************************)
(* A model of DNScache (src/dns_cache_tool.py, src/gui.py): the sliding-   *)
(* window rate limiter, the crawl engine (collect_domains/process_domain), *)
(* and the batch resolver (batch_query_dns/query_dns).                     *)
(*                                                                         *)
(* Time is counted in ticks; TicksPerSecond ticks make the 1.0 second of   *)
(* the limiter's window.                                                   *)
(***************************************************************************)
EXTENDS Integers, Sequences, FiniteSets, TLC

\* ---------------------------------------------------------------- bounds
TicksPerSecond == 2
MaxTime == 3
MaxCalls == 4
MaxQps == 2
NumThreads == 2
MaxTarget == 4
MaxQueryDomains == 2
MaxBatchSize == 2
\* The crawl saves a checkpoint every 100 collected domains; the model counts
\* CheckpointEvery domains for 100.
CheckpointEvery == 2
\* A trial samples at most 100 test domains; the model counts SampleCap for 100.
SampleCap == 2
MaxQueryTime == 2
MaxTrialTime == 2

Threads == 1..NumThreads
NoThread == 0

\* ------------------------------------------------------------- domains
\* A domain is its sequence of characters.
D_seed == <<"e", ".", "c">>
D_sub == <<"a", ".", "e", ".", "c">>
D_near == <<"n", "e", ".", "c">>
D_other == <<"o", ".", "c">>
Domains == {D_seed, D_sub, D_near, D_other}
DomainSeq == <<D_seed, D_sub, D_near, D_other>>
FirstDomains(k) == {DomainSeq[i] : i \in 1..k}

\* The domains the anchors of each page name (the web graph the crawl runs on).
PageLinks(d) ==
    CASE d = D_seed -> {D_sub, D_near, D_other}
      [] d = D_sub -> {D_near, D_seed}
      [] d = D_near -> {D_sub}
      [] OTHER -> {}

\* The address a successful lookup of d returns.
IpOf(d) == <<"ip", d>>

NoResult == [success |-> FALSE, ip_addresses |-> << >>, error |-> "unset"]
NoError == "None"
\* The stages of a query_dns call: the outcome of socket.gethostbyname, and of
\* resolver.resolve when it was invoked.
Lookup(fast, fast_error, fallback, answers, fallback_error) ==
    [fast |-> fast, fast_error |-> fast_error, fallback |-> fallback,
     answers |-> answers, fallback_error |-> fallback_error]
NoLookup == Lookup("none", "", "not_invoked", << >>, "")
FetchOutcomes == {"ok", "request_failed", "parse_failed"}
Frontends == {"cli", "gui"}

VARIABLES
    \* DNSRateLimiter / QueryRateLimiter
    now,                  \* the wall clock, time.time(), in ticks
    queries_per_second,   \* self.queries_per_second
    query_times,          \* self.query_times
    rl_lock,              \* self.lock of the limiter: its holder or NoThread
    sleep_until,          \* per thread: the instant at which its time.sleep returns
    admitted,             \* history: every admission timestamp ever appended
    \* the threads
    wpc,                  \* position of each thread
    wtask,                \* what each thread is running
    wdom,                 \* the domain argument of the thread's task
    wlinks,               \* new_links / new_domains of process_domain
    wadmitted,            \* the thread passed the limiter for its current task
    \* DNSCacheTool
    frontend,             \* whose callbacks the tool was constructed with
    target_count,         \* self.target_count
    only_subdomains,      \* self.only_subdomains
    base_domain,          \* self.base_domain
    visited_domains,      \* self.visited_domains
    domains_to_visit,     \* self.domains_to_visit
    collected_domains,    \* self.collected_domains
    dns_results,          \* self.dns_results: a result per domain, or NoResult
    lock,                 \* self.lock of the crawl: its holder or NoThread
    \* collect_domains
    cpc,                  \* position of the coordinator
    start_domain,         \* the arguments of collect_domains
    start_only_subdomains,
    collect_threads,      \* the configured Crawler CollectThreads
    queue,                \* tasks submitted to the pool and not yet started
    \* history
    fetch_count,          \* how often get_links_from_domain ran, per domain
    fetch_failed,         \* the domains whose page fetch raised
    unadmitted_lookups,   \* the domains resolved without a limiter admission
    lookups,              \* what the stages of the last query_dns of each domain did
    \* batch_query_dns
    bpc,                  \* position of batch_query_dns
    batch_size,           \* the configured DNS BatchSize
    dns_max_workers,      \* the configured DNS MaxWorkers
    progress_events,      \* history: the arguments of each progress_callback call
    domains_list,         \* domains_list = list(domains_to_query)
    batch_index,          \* i, the start of the current batch
    success_count,        \* success_count
    future,               \* the state of the future of each submitted query_dns
    \* the data directory
    current_file,         \* self.current_file: the checkpoint's path or NoFile
    files,                \* the files of data_dir: a content for each existing path
    io_log,               \* history: the file operations attempted and reported
    \* DNSPerformanceTester
    tpc,                  \* position of run_tests
    test_domains,         \* len(self.test_domains)
    initial_params,       \* history: self.default_params as constructed
    default_params,       \* self.default_params
    param_index,          \* the parameter of param_ranges the outer loop is at
    value_index,          \* the value of its range the inner loop is at
    param_results,        \* param_results of the parameter being tuned
    all_param_results,    \* self.all_param_results
    test_result,          \* the test_result of the last trial, with its queries
    artifacts,            \* the files of output_dir: a content for each existing path
    tuning_log,           \* history: the writes of artifacts reported or raised
    \* batch_query_dns(file_path) / load_domains_from_file
    file_path,            \* the file named by the caller, with what it holds, or NoPath
    loaded,               \* what load_domains_from_file returned, and the set it found
    load_messages,        \* the message events of load_domains_from_file
    \* the main window of gui.py
    gui                   \* its buttons (enabled or not) and the threads it started

limiter_vars == <<now, queries_per_second, query_times, rl_lock, sleep_until, admitted>>
thread_vars == <<wpc, wtask, wdom, wlinks, wadmitted>>
tool_vars == <<frontend, target_count, only_subdomains, base_domain, visited_domains,
               domains_to_visit, collected_domains, dns_results, lock>>
crawl_vars == <<cpc, start_domain, start_only_subdomains, collect_threads, queue>>
history_vars == <<fetch_count, fetch_failed, unadmitted_lookups, lookups>>
batch_vars == <<bpc, batch_size, dns_max_workers, progress_events, domains_list,
                batch_index, success_count, future>>
file_vars == <<current_file, files, io_log>>
tuning_vars == <<tpc, test_domains, initial_params, default_params, param_index,
                 value_index, param_results, all_param_results, test_result,
                 artifacts, tuning_log>>
input_vars == <<file_path, loaded, load_messages>>
gui_vars == <<gui>>
vars == <<limiter_vars, thread_vars, tool_vars, crawl_vars, history_vars, batch_vars,
          file_vars, tuning_vars, input_vars, gui_vars>>

\* ------------------------------------------------------- the rate limiter
\* self.query_times = [t for t in self.query_times if current_time - t < 1.0]
Prune(qt, current_time) ==
    SelectSeq(qt, LAMBDA t : current_time - t < TicksPerSecond)

MustWaitOffByOne(qt, qps) == Len(qt) > qps
\* if len(self.query_times) >= self.queries_per_second:
MustWait(qt, qps) == Len(qt) >= qps

\* sleep_time = 1.0 - (current_time - self.query_times[0])
SleepTime(qt, current_time) == TicksPerSecond - (current_time - qt[1])

\* The instant time.sleep(sleep_time) returns at the earliest.
WakeTime(qt, current_time) ==
    IF SleepTime(qt, current_time) > 0
    THEN current_time + SleepTime(qt, current_time)
    ELSE current_time

\* The continuation of a thread after wait_if_needed returned or raised.
AfterAdmit(w) == IF wtask[w] = "limiter" THEN "idle" ELSE "q_fast"

\* wait_if_needed, first half: take the lock, read the clock, prune, decide to
\* sleep.  self.query_times[0] on an empty list raises IndexError, which leaves
\* the with-block (the lock is released) and the call.
wait_if_needed_enter(w) ==
    /\ wpc[w] = "rl_wait"
    /\ rl_lock = NoThread
    /\ LET pruned == Prune(query_times, now) IN
       /\ query_times' = pruned
       /\ IF MustWait(pruned, queries_per_second)
          THEN IF pruned = << >>
               THEN /\ wpc' = [wpc EXCEPT ![w] = "raised"]
                    /\ UNCHANGED <<rl_lock, sleep_until>>
               ELSE /\ wpc' = [wpc EXCEPT ![w] = "rl_sleep"]
                    /\ rl_lock' = w
                    /\ sleep_until' = [sleep_until EXCEPT ![w] = WakeTime(pruned, now)]
          ELSE /\ wpc' = [wpc EXCEPT ![w] = "rl_sleep"]
               /\ rl_lock' = w
               /\ sleep_until' = [sleep_until EXCEPT ![w] = now]
    /\ UNCHANGED <<now, queries_per_second, admitted, wtask, wdom, wlinks, wadmitted>>
    /\ UNCHANGED <<tool_vars, crawl_vars, history_vars>>
    /\ UNCHANGED batch_vars
    /\ UNCHANGED file_vars
    /\ UNCHANGED tuning_vars
    /\ UNCHANGED input_vars
    /\ UNCHANGED gui_vars

\* wait_if_needed, second half: the sleep is over,
\* self.query_times.append(time.time()), release the lock, return.
wait_if_needed_append(w) ==
    /\ wpc[w] = "rl_sleep"
    /\ rl_lock = w
    /\ now >= sleep_until[w]
    /\ query_times' = Append(query_times, now)
    /\ admitted' = Append(admitted, now)
    /\ rl_lock' = NoThread
    /\ sleep_until' = [sleep_until EXCEPT ![w] = 0]
    /\ wpc' = [wpc EXCEPT ![w] = AfterAdmit(w)]
    /\ wadmitted' = [wadmitted EXCEPT ![w] = (wtask[w] # "limiter")]
    /\ UNCHANGED <<now, queries_per_second, wtask, wdom, wlinks>>
    /\ UNCHANGED <<tool_vars, crawl_vars, history_vars>>
    /\ UNCHANGED batch_vars
    /\ UNCHANGED file_vars
    /\ UNCHANGED tuning_vars
    /\ UNCHANGED input_vars
    /\ UNCHANGED gui_vars

\* The clock advances.
Tick ==
    /\ now < MaxTime
    /\ now' = now + 1
    /\ UNCHANGED <<queries_per_second, query_times, rl_lock, sleep_until, admitted>>
    /\ UNCHANGED <<thread_vars, tool_vars, crawl_vars, history_vars>>
    /\ UNCHANGED batch_vars
    /\ UNCHANGED file_vars
    /\ UNCHANGED tuning_vars
    /\ UNCHANGED input_vars
    /\ UNCHANGED gui_vars

\* A worker thread calls the limiter.
CallLimiter(w) ==
    /\ wpc[w] = "idle"
    /\ Len(admitted) + Cardinality({v \in Threads : wpc[v] # "idle"}) < MaxCalls
    /\ wpc' = [wpc EXCEPT ![w] = "rl_wait"]
    /\ wtask' = [wtask EXCEPT ![w] = "limiter"]
    /\ UNCHANGED <<wdom, wlinks, wadmitted>>
    /\ UNCHANGED <<limiter_vars, tool_vars, crawl_vars, history_vars>>
    /\ UNCHANGED batch_vars
    /\ UNCHANGED file_vars
    /\ UNCHANGED tuning_vars
    /\ UNCHANGED input_vars
    /\ UNCHANGED gui_vars

\* DNSRateLimiter.__init__: any integer is accepted.
LimiterInit ==
    /\ now = 0
    /\ queries_per_second \in 0..MaxQps
    /\ query_times = << >>
    /\ rl_lock = NoThread
    /\ sleep_until = [w \in Threads |-> 0]
    /\ admitted = << >>

\* The worker threads of a pool before any task is submitted.
ThreadsInit ==
    /\ wpc = [w \in Threads |-> "idle"]
    /\ wtask = [w \in Threads |-> "none"]
    /\ wdom = [w \in Threads |-> D_seed]
    /\ wlinks = [w \in Threads |-> {}]
    /\ wadmitted = [w \in Threads |-> FALSE]

\* DNSCacheTool.__init__
ToolInit ==
    /\ visited_domains = {}
    /\ domains_to_visit = {}
    /\ collected_domains = {}
    /\ dns_results = [d \in Domains |-> NoResult]
    /\ only_subdomains = FALSE
    /\ base_domain = << >>
    /\ lock = NoThread

HistoryInit ==
    /\ fetch_count = [d \in Domains |-> 0]
    /\ fetch_failed = {}
    /\ unadmitted_lookups = {}
    /\ lookups = [d \in Domains |-> NoLookup]

\* file_path=None, and load_domains_from_file not called.
NoPath == [kind |-> "none", domains |-> {}, settings |-> FALSE, results |-> FALSE]
NotLoaded == [called |-> FALSE, returned |-> {}, before |-> {}]
InputIdle ==
    /\ file_path = NoPath
    /\ loaded = NotLoaded
    /\ load_messages = << >>

\* The window after _create_widgets: every button enabled, no thread started.
GuiIdle ==
    gui = [collect_button |-> TRUE, load_query_button |-> TRUE, import_button |-> TRUE,
           collection_thread |-> "none", query_thread |-> "none"]

\* self.current_file = None, in a data directory without files of this tool.
NoFile == [base |-> << >>, sub |-> FALSE, count |-> 0, stamp |-> 0]
FilesInit ==
    /\ current_file = NoFile
    /\ files = << >>
    /\ io_log = << >>

\* The parameters run_tests tunes, in the order of param_ranges, and the
\* candidate values of each: the first two parameters with their first two values.
ParamOrder == <<"QueriesPerSecond", "MaxWorkers">>
param_ranges == [QueriesPerSecond |-> <<5, 10>>, MaxWorkers |-> <<5, 10>>]
ParamNames == {ParamOrder[i] : i \in 1..Len(ParamOrder)}
NoTrial == [param_name |-> "none"]
\* self.default_params of a tester constructed without a configuration.
DefaultParams ==
    [QueriesPerSecond |-> 12, MaxWorkers |-> 12, Timeout |-> 1, BatchSize |-> 100,
     CollectThreads |-> 5]

\* No tuning run is started in this behaviour.
TuningIdle ==
    /\ tpc = "idle"
    /\ test_domains = 0
    /\ initial_params = DefaultParams
    /\ default_params = DefaultParams
    /\ param_index = 1
    /\ value_index = 1
    /\ param_results = << >>
    /\ all_param_results = << >>
    /\ test_result = NoTrial
    /\ artifacts = << >>
    /\ tuning_log = << >>

\* No batch query is started in this behaviour.
BatchIdle ==
    /\ bpc = "idle"
    /\ batch_size = 1
    /\ dns_max_workers = NumThreads
    /\ progress_events = << >>
    /\ domains_list = << >>
    /\ batch_index = 0
    /\ success_count = 0
    /\ future = [d \in Domains |-> "none"]

\* No crawl is started in this behaviour.
CrawlIdle ==
    /\ cpc = "idle"
    /\ start_domain = D_seed
    /\ start_only_subdomains = FALSE
    /\ collect_threads = NumThreads
    /\ queue = << >>

InitLimiter ==
    /\ LimiterInit
    /\ ThreadsInit
    /\ ToolInit
    /\ HistoryInit
    /\ FilesInit
    /\ InputIdle
    /\ GuiIdle
    /\ TuningIdle
    /\ CrawlIdle
    /\ BatchIdle
    /\ frontend = "cli"
    /\ target_count = 0

NextLimiter ==
    \/ Tick
    \/ \E w \in Threads : CallLimiter(w)
    \/ \E w \in Threads : wait_if_needed_enter(w)
    \/ \E w \in Threads : wait_if_needed_append(w)

SpecLimiter == InitLimiter /\ [][NextLimiter]_vars


\* ---------------------------------------------------------- the crawl engine
EndsWithoutDot(domain, suffix) ==
    /\ Len(domain) >= Len(suffix) - 1
    /\ SubSeq(domain, Len(domain) - Len(suffix) + 2, Len(domain)) = Tail(suffix)
\* domain.endswith(suffix)
EndsWith(domain, suffix) ==
    /\ Len(domain) >= Len(suffix)
    /\ SubSeq(domain, Len(domain) - Len(suffix) + 1, Len(domain)) = suffix

is_subdomain_any(domain) == TRUE
\* DNSCacheTool.is_subdomain
is_subdomain(domain) ==
    IF ~only_subdomains \/ base_domain = << >>
    THEN TRUE
    ELSE EndsWith(domain, <<".">> \o base_domain) \/ domain = base_domain

\* The links get_links_from_domain returns for a page that was fetched and parsed.
ExtractedLinks(domain) ==
    {l \in PageLinks(domain) : l # domain /\ is_subdomain(l)}

SuccessResultNoAddress(d) == [success |-> TRUE, ip_addresses |-> << >>, error |-> NoError]
SuccessResult(d) == [success |-> TRUE, ip_addresses |-> <<IpOf(d)>>, error |-> NoError]
FailureResult(e) == [success |-> FALSE, ip_addresses |-> << >>, error |-> e]

\* All orders in which the elements of a set can be popped.
RECURSIVE Orders(_)
Orders(S) ==
    IF S = {} THEN {<< >>}
    ELSE UNION {{<<x>> \o o : o \in Orders(S \ {x})} : x \in S}

Min(a, b) == IF a <= b THEN a ELSE b

\* ------------------------------------------------------- the checkpoints
\* new_file: the base domain, the subdomain flag, the number of collected
\* domains and the minute of the clock make the name.
FileName(count) ==
    [base |-> base_domain, sub |-> only_subdomains, count |-> count, stamp |-> now]

\* open(path, 'w') and json.dump(content): the file exists with that content.
Written(fs, path, content) ==
    [p \in DOMAIN fs \cup {path} |-> IF p = path THEN content ELSE fs[p]]

RemovedNothing(fs, path) == fs
\* os.remove(path)
Removed(fs, path) == [p \in DOMAIN fs \ {path} |-> fs[p]]

\* What is reported through message_callback about one file operation, and
\* whether self.lock was held by a worker while the operation and the callback
\* ran.
Reported(event, path, final_save) ==
    [event |-> event, file |-> path, final |-> final_save,
     size |-> Cardinality(collected_domains), locked |-> lock # NoThread]

CheckpointDueAlways == TRUE
\* if len(self.collected_domains) % 100 == 0
CheckpointDue == Cardinality(collected_domains) % CheckpointEvery = 0

\* save_domains_to_file(final_save): the new values of current_file, files and
\* the reports, when os.remove and the write succeed or fail as given.  With
\* nothing collected it reports that and returns None.
save_domains_to_file(final_save, remove_ok, write_ok) ==
    IF collected_domains = {}
    THEN [current_file |-> current_file, files |-> files,
          reports |-> <<Reported("nothing_to_save", NoFile, final_save)>>]
    ELSE LET renamed == final_save \/ current_file = NoFile
             new_file == FileName(Cardinality(collected_domains))
             removing == /\ renamed
                         /\ current_file # NoFile
                         /\ current_file # new_file
                         /\ current_file \in DOMAIN files
                         /\ final_save
             after_remove == IF removing /\ remove_ok
                             THEN Removed(files, current_file) ELSE files
             remove_reports ==
                 IF removing
                 THEN <<Reported(IF remove_ok THEN "removed" ELSE "remove_failed",
                                 current_file, final_save)>>
                 ELSE << >>
             path == IF renamed THEN new_file ELSE current_file
         IN  [current_file |-> path,
              files |-> IF write_ok THEN Written(after_remove, path, collected_domains)
                        ELSE after_remove,
              reports |-> remove_reports \o
                  <<Reported(IF write_ok THEN "saved" ELSE "save_failed",
                             path, final_save)>>]

\* collect_domains, up to the thread pool: the fields are reset for a new crawl.
collect_domains_start ==
    /\ cpc = "idle"
    /\ only_subdomains' = start_only_subdomains
    /\ base_domain' = start_domain
    /\ visited_domains' = {}
    /\ domains_to_visit' = {start_domain}
    /\ collected_domains' = {}
    /\ dns_results' = [d \in Domains |-> NoResult]
    /\ lock' = NoThread
    /\ cpc' = "loop"
    /\ current_file' = NoFile
    /\ UNCHANGED <<files, io_log>>
    /\ UNCHANGED <<frontend, target_count, start_domain, start_only_subdomains,
                   collect_threads, queue>>
    /\ UNCHANGED <<limiter_vars, thread_vars, history_vars>>
    /\ UNCHANGED batch_vars
    /\ UNCHANGED tuning_vars
    /\ UNCHANGED input_vars
    /\ UNCHANGED gui_vars

LoopIgnoresFrontier == Cardinality(collected_domains) < target_count
\* while self.domains_to_visit and len(self.collected_domains) < self.target_count
LoopCondition ==
    domains_to_visit # {} /\ Cardinality(collected_domains) < target_count

BatchSizeWholeFrontier(threads) == Cardinality(domains_to_visit)
\* batch_size = min(collect_threads * 2, len(self.domains_to_visit))
BatchSizeOf(threads) ==
    Min(threads * 2, Cardinality(domains_to_visit))

\* One turn of the loop: pop batch_size domains, submit a task for each.
collect_domains_batch ==
    /\ cpc = "loop"
    /\ LoopCondition
    /\ \E batch \in SUBSET domains_to_visit :
          /\ Cardinality(batch) = BatchSizeOf(collect_threads)
          /\ domains_to_visit' = domains_to_visit \ batch
          /\ \E order \in Orders(batch) : queue' = order
    /\ cpc' = "wait"
    /\ UNCHANGED <<frontend, target_count, only_subdomains, base_domain, visited_domains,
                   collected_domains, dns_results, lock, start_domain,
                   start_only_subdomains, collect_threads>>
    /\ UNCHANGED <<limiter_vars, thread_vars, history_vars>>
    /\ UNCHANGED batch_vars
    /\ UNCHANGED file_vars
    /\ UNCHANGED tuning_vars
    /\ UNCHANGED input_vars
    /\ UNCHANGED gui_vars

\* for future in futures: future.result(): every task of the batch has finished.
FuturesSubmitted == queue = << >>
\* futures = [...submit...]; for future in futures: future.result() has
\* returned for each: every task was taken from the pool's queue and has ended.
FuturesDone ==
    /\ queue = << >>
    /\ \A w \in Threads : wpc[w] = "idle"

collect_domains_join ==
    /\ cpc = "wait"
    /\ FuturesDone
    /\ cpc' = "loop"
    /\ UNCHANGED <<start_domain, start_only_subdomains, collect_threads, queue>>
    /\ UNCHANGED <<limiter_vars, thread_vars, tool_vars, history_vars>>
    /\ UNCHANGED batch_vars
    /\ UNCHANGED file_vars
    /\ UNCHANGED tuning_vars
    /\ UNCHANGED input_vars
    /\ UNCHANGED gui_vars

\* The loop condition is false: the final save, the message, the return.
collect_domains_finish ==
    /\ cpc = "loop"
    /\ ~LoopCondition
    /\ cpc' = "done"
    /\ \E remove_ok \in BOOLEAN, write_ok \in BOOLEAN :
          LET saved == save_domains_to_file(TRUE, remove_ok, write_ok) IN
          /\ current_file' = saved.current_file
          /\ files' = saved.files
          /\ io_log' = io_log \o saved.reports
    /\ UNCHANGED <<start_domain, start_only_subdomains, collect_threads, queue>>
    /\ UNCHANGED <<limiter_vars, thread_vars, tool_vars, history_vars>>
    /\ UNCHANGED batch_vars
    /\ UNCHANGED tuning_vars
    /\ UNCHANGED input_vars
    /\ UNCHANGED gui_vars

AlreadyVisitedIgnored(domain) == FALSE
\* if domain in self.visited_domains: return
AlreadyVisited(domain) == domain \in visited_domains

\* The threads of ThreadPoolExecutor(max_workers=collect_threads).
CrawlPool == {w \in Threads : w <= collect_threads}

\* A pool thread takes the next submitted task, process_domain(domain), and
\* runs its guard.
process_domain_check(w) ==
    /\ wpc[w] = "idle"
    /\ w \in CrawlPool
    /\ queue # << >>
    /\ cpc = "wait"
    /\ wdom' = [wdom EXCEPT ![w] = Head(queue)]
    /\ queue' = Tail(queue)
    /\ wlinks' = [wlinks EXCEPT ![w] = {}]
    /\ wadmitted' = [wadmitted EXCEPT ![w] = FALSE]
    /\ IF AlreadyVisited(Head(queue))
       THEN /\ wpc' = [wpc EXCEPT ![w] = "idle"]
            /\ wtask' = [wtask EXCEPT ![w] = "none"]
       ELSE /\ wpc' = [wpc EXCEPT ![w] = "p_mark"]
            /\ wtask' = [wtask EXCEPT ![w] = "process"]
    /\ UNCHANGED <<cpc, start_domain, start_only_subdomains, collect_threads>>
    /\ UNCHANGED <<limiter_vars, tool_vars, history_vars>>
    /\ UNCHANGED batch_vars
    /\ UNCHANGED file_vars
    /\ UNCHANGED tuning_vars
    /\ UNCHANGED input_vars
    /\ UNCHANGED gui_vars

MarkedNothing(domain) == visited_domains
\* self.visited_domains.add(domain)
Marked(domain) == visited_domains \cup {domain}

\* self.visited_domains.add(domain), the progress callback, and
\* new_links = self.get_links_from_domain(domain): requests.get, then
\* socket.gethostbyname, then the parse.  requests.get raising skips the lookup;
\* the parse raising overwrites the lookup's result; either way the failure is
\* recorded in dns_results and an empty set of links is returned: the call
\* never raises.  The lookup of a name requests.get has just resolved succeeds
\* (its failure is swallowed and changes nothing).
get_links_from_domain(w) ==
    /\ wpc[w] = "p_mark"
    /\ visited_domains' = Marked(wdom[w])
    /\ \E outcome \in FetchOutcomes :
          LET d == wdom[w] IN
          /\ fetch_count' = [fetch_count EXCEPT ![d] = @ + 1]
          /\ IF outcome = "ok"
             THEN /\ wlinks' = [wlinks EXCEPT ![w] = ExtractedLinks(d)]
                  /\ dns_results' = [dns_results EXCEPT ![d] = SuccessResult(d)]
                  /\ UNCHANGED fetch_failed
             ELSE /\ wlinks' = [wlinks EXCEPT ![w] = {}]
                  /\ dns_results' = [dns_results EXCEPT ![d] = FailureResult(outcome)]
                  /\ fetch_failed' = fetch_failed \cup {d}
          /\ IF outcome = "request_failed"
             THEN UNCHANGED unadmitted_lookups
             ELSE unadmitted_lookups' =
                     IF wadmitted[w] THEN unadmitted_lookups
                     ELSE unadmitted_lookups \cup {d}
    /\ wpc' = [wpc EXCEPT ![w] = "p_lock"]
    /\ UNCHANGED <<frontend, target_count, only_subdomains, base_domain,
                   domains_to_visit, collected_domains, lock>>
    /\ UNCHANGED <<wtask, wdom, wadmitted, lookups>>
    /\ UNCHANGED <<limiter_vars, crawl_vars>>
    /\ UNCHANGED batch_vars
    /\ UNCHANGED file_vars
    /\ UNCHANGED tuning_vars
    /\ UNCHANGED input_vars
    /\ UNCHANGED gui_vars

\* with self.lock: self.collected_domains.add(domain), and
\* new_domains = {d for d in new_links if d not in self.visited_domains}
process_domain_collect(w) ==
    /\ wpc[w] = "p_lock"
    /\ lock = NoThread
    /\ lock' = w
    /\ collected_domains' = collected_domains \cup {wdom[w]}
    /\ wlinks' = [wlinks EXCEPT ![w] = {d \in wlinks[w] : d \notin visited_domains}]
    /\ wpc' = [wpc EXCEPT ![w] = "p_merge"]
    /\ UNCHANGED <<frontend, target_count, only_subdomains, base_domain, visited_domains,
                   domains_to_visit, dns_results>>
    /\ UNCHANGED <<wtask, wdom, wadmitted>>
    /\ UNCHANGED <<limiter_vars, crawl_vars, history_vars>>
    /\ UNCHANGED batch_vars
    /\ UNCHANGED file_vars
    /\ UNCHANGED tuning_vars
    /\ UNCHANGED input_vars
    /\ UNCHANGED gui_vars

\* self.domains_to_visit.update(new_domains), the checkpoint when it is due,
\* then the lock is released and the task ends.
process_domain_merge(w) ==
    /\ wpc[w] = "p_merge"
    /\ domains_to_visit' = domains_to_visit \cup wlinks[w]
    /\ IF CheckpointDue
       THEN \E write_ok \in BOOLEAN :
               LET saved == save_domains_to_file(FALSE, TRUE, write_ok) IN
               /\ current_file' = saved.current_file
               /\ files' = saved.files
               /\ io_log' = io_log \o saved.reports
       ELSE UNCHANGED <<current_file, files, io_log>>
    /\ lock' = NoThread
    /\ wpc' = [wpc EXCEPT ![w] = "idle"]
    /\ wtask' = [wtask EXCEPT ![w] = "none"]
    /\ UNCHANGED <<frontend, target_count, only_subdomains, base_domain, visited_domains,
                   collected_domains, dns_results>>
    /\ UNCHANGED <<wdom, wlinks, wadmitted>>
    /\ UNCHANGED <<limiter_vars, crawl_vars, history_vars>>
    /\ UNCHANGED batch_vars
    /\ UNCHANGED tuning_vars
    /\ UNCHANGED input_vars
    /\ UNCHANGED gui_vars

\* ------------------------------------------------------- the domain files
\* The names a file may list.
FileDomainSets == {{}, {D_sub, D_other}}

\* A file as load_domains_from_file meets it: no file at that path, a file that
\* cannot be opened or decoded, text that json.load rejects (under a name that
\* ends with .csv or not), a JSON list of names, a JSON list of unhashable
\* values, a JSON dict with a 'domains' key (with or without the crawl's
\* settings and dns_results), or any other JSON value.
UnreadableKinds == {"missing", "unreadable"}
RejectedKinds == {"text", "json_other", "json_unhashable"}
FlatKinds == {"csv", "json_list"}
InputFiles ==
    {[kind |-> k, domains |-> ds, settings |-> FALSE, results |-> FALSE] :
        k \in UnreadableKinds \cup RejectedKinds \cup FlatKinds, ds \in FileDomainSets}
    \cup {[kind |-> "json_dict", domains |-> ds, settings |-> st, results |-> rs] :
            ds \in FileDomainSets, st \in BOOLEAN, rs \in BOOLEAN}

\* The dns_results a file of the old format carries.
FileResult(d) == [success |-> TRUE, ip_addresses |-> <<<<"file", d>>>>, error |-> NoError]
FileResults(file) == [d \in Domains |-> IF d \in file.domains THEN FileResult(d) ELSE NoResult]

RecognisedAlways(file) == file.domains
\* The domains the parsing branches take from a file: the list, the value of
\* 'domains', or the first column of the rows after the header of a .csv.
Recognised(file) ==
    IF file.kind \in FlatKinds \cup {"json_dict"} THEN file.domains ELSE {}

\* load_domains_from_file(file_path): what it returns, the fields of the tool
\* after it, and its message events.
load_domains_from_file(file) ==
    LET unchanged == [collected_domains |-> collected_domains,
                      only_subdomains |-> only_subdomains,
                      base_domain |-> base_domain,
                      dns_results |-> dns_results]
        with_settings == IF file.kind = "json_dict" /\ file.settings
                         THEN [unchanged EXCEPT !.only_subdomains = TRUE,
                                                !.base_domain = D_seed]
                         ELSE unchanged
        with_results == IF file.kind = "json_dict" /\ file.results
                        THEN [with_settings EXCEPT !.dns_results = FileResults(file)]
                        ELSE with_settings
        told == (IF file.kind = "json_dict" /\ file.settings
                 THEN <<"file_settings">> ELSE << >>)
                \o (IF file.kind = "json_dict" /\ file.results
                    THEN <<"old_results_loaded">> ELSE << >>)
                \o (IF file.kind = "json_other" THEN <<"unexpected_format">> ELSE << >>)
    IN  CASE file.kind = "missing" ->
                [returned |-> {}, tool |-> unchanged, messages |-> <<"file_not_found">>]
          [] file.kind = "unreadable" ->
                [returned |-> {}, tool |-> unchanged, messages |-> <<"load_error">>]
          [] file.kind = "text" ->
                [returned |-> {}, tool |-> unchanged, messages |-> <<"not_json_or_csv">>]
          [] file.kind = "json_unhashable" ->
                [returned |-> {}, tool |-> unchanged, messages |-> <<"loaded", "load_error">>]
          [] OTHER ->
                [returned |-> Recognised(file),
                 tool |-> [with_results EXCEPT !.collected_domains =
                                                   collected_domains \cup Recognised(file)],
                 messages |-> told \o <<"loaded">>]

\* ------------------------------------------------------- the main window
OsImportedAnyway == TRUE
\* gui.py imports tkinter, threading and dns_cache_tool, and not os.
OsImported == FALSE

\* What a callback does to the tool when it calls load_domains_from_file(file).
LoadedByCallback(file) ==
    LET load == load_domains_from_file(file) IN
    /\ collected_domains' = load.tool.collected_domains
    /\ only_subdomains' = load.tool.only_subdomains
    /\ base_domain' = load.tool.base_domain
    /\ dns_results' = load.tool.dns_results
    /\ loaded' = [called |-> TRUE, returned |-> load.returned, before |-> collected_domains]
    /\ load_messages' = load_messages \o load.messages

\* _disable_long_operation_buttons, and the thread of the batch query started.
QueryThreadStarted ==
    [gui EXCEPT !.collect_button = FALSE, !.load_query_button = FALSE,
                !.import_button = FALSE, !.query_thread = "running"]

\* App.start_collection_cb: the Start Collection button alone is disabled and
\* collect_domains is started in a thread of its own.
start_collection_cb ==
    /\ frontend = "gui"
    /\ gui.collect_button
    /\ gui.collection_thread = "none"
    /\ gui' = [gui EXCEPT !.collect_button = FALSE, !.collection_thread = "running"]
    /\ UNCHANGED <<limiter_vars, thread_vars, tool_vars, crawl_vars, history_vars,
                   batch_vars, file_vars, tuning_vars, input_vars>>

\* collection_task after collect_domains has returned: the button is enabled
\* again.
collection_task_end ==
    /\ gui.collection_thread = "running"
    /\ cpc = "done"
    /\ gui' = [gui EXCEPT !.collect_button = TRUE, !.collection_thread = "ended"]
    /\ UNCHANGED <<limiter_vars, thread_vars, tool_vars, crawl_vars, history_vars,
                   batch_vars, file_vars, tuning_vars, input_vars>>

\* App.load_domains_for_query_cb with a file chosen: os is not imported by
\* gui.py, so the callback ends with NameError at os.path.basename, before
\* load_domains_from_file is called.  Were os there, the file would be loaded
\* and, unless it yields nothing, the buttons disabled and batch_query_dns
\* started in a thread for that file.
load_domains_for_query_cb ==
    /\ frontend = "gui"
    /\ gui.load_query_button
    /\ IF OsImported
       THEN \E file \in InputFiles :
               /\ LoadedByCallback(file)
               /\ IF load_domains_from_file(file).returned = {}
                  THEN UNCHANGED <<gui, file_path>>
                  ELSE /\ gui' = QueryThreadStarted
                       /\ file_path' = file
               /\ UNCHANGED <<frontend, target_count, visited_domains, domains_to_visit,
                              lock>>
               /\ UNCHANGED <<limiter_vars, thread_vars, crawl_vars, history_vars,
                              batch_vars, file_vars, tuning_vars>>
       ELSE UNCHANGED vars

\* App.import_domain_list_cb with a file chosen: NameError at os.path.basename
\* in the same way, the tool left as it was.  Were os there, the file would be
\* loaded and, if it yields domains and the user agrees, the buttons disabled
\* and batch_query_dns started in a thread for collected_domains.
import_domain_list_cb ==
    /\ frontend = "gui"
    /\ gui.import_button
    /\ IF OsImported
       THEN \E file \in InputFiles, query_now \in BOOLEAN :
               /\ LoadedByCallback(file)
               /\ gui' = IF load_domains_from_file(file).returned # {} /\ query_now
                         THEN QueryThreadStarted ELSE gui
               /\ UNCHANGED <<frontend, target_count, visited_domains, domains_to_visit,
                              lock, file_path>>
               /\ UNCHANGED <<limiter_vars, thread_vars, crawl_vars, history_vars,
                              batch_vars, file_vars, tuning_vars>>
       ELSE UNCHANGED vars

Worker(w) ==
    \/ process_domain_check(w)
    \/ get_links_from_domain(w)
    \/ process_domain_collect(w)
    \/ process_domain_merge(w)

Coordinator ==
    \/ collect_domains_start
    \/ collect_domains_batch
    \/ collect_domains_join
    \/ collect_domains_finish

\* The tool is constructed; the user is about to start a crawl.
Init ==
    /\ now = 0
    /\ queries_per_second = 1
    /\ query_times = << >>
    /\ rl_lock = NoThread
    /\ sleep_until = [w \in Threads |-> 0]
    /\ admitted = << >>
    /\ ThreadsInit
    /\ ToolInit
    /\ HistoryInit
    /\ FilesInit
    /\ InputIdle
    /\ GuiIdle
    /\ TuningIdle
    /\ frontend = "gui"
    /\ target_count \in 0..MaxTarget
    /\ cpc = "idle"
    /\ start_domain \in Domains
    /\ start_only_subdomains \in BOOLEAN
    /\ collect_threads \in 1..NumThreads
    /\ queue = << >>
    /\ BatchIdle

Next ==
    \/ Coordinator
    \/ \E w \in Threads : Worker(w)
    \/ import_domain_list_cb

Spec == Init /\ [][Next]_vars

\* The pool's threads and the coordinator are scheduled: while one of them can
\* take a step, one of them does.
FairSpec ==
    /\ Spec
    /\ WF_vars(Coordinator \/ \E w \in Threads : Worker(w))

\* The window is open, the fields of the collection frame filled in.
InitGui ==
    /\ Init
    /\ target_count \in {0, MaxTarget}
    /\ collect_threads = NumThreads

\* The user clicks; the collection thread, once started, runs collect_domains.
NextGui ==
    \/ start_collection_cb
    \/ (gui.collection_thread = "running" /\ (Coordinator \/ \E w \in Threads : Worker(w)))
    \/ collection_task_end
    \/ load_domains_for_query_cb
    \/ import_domain_list_cb

SpecGui == InitGui /\ [][NextGui]_vars

\* ------------------------------------------------------- the batch resolver
\* The outcomes of the two lookups of one query_dns call.
SocketErrors == {"gaierror", ""}
ResolverErrors == {"NXDOMAIN"}
\* What resolver.resolve(domain, 'A') answers: several addresses, in order.
Answers(d) == {<<[address |-> <<"ip2", d>>], [address |-> IpOf(d)]>>}

\* cli_message_handler(message) takes no is_error keyword; gui_message_callback
\* does.
AcceptsIsErrorAlways(fe) == TRUE
AcceptsIsError(fe) == fe = "gui"

\* max_workers = min(self.config.getint('DNS', 'MaxWorkers'), total_count ...)
PoolThreads == {w \in Threads : w <= Min(dns_max_workers, Len(domains_list))}

BatchAtRest(i) == SubSeq(domains_list, i + 1, Len(domains_list))
\* batch = domains_list[i:i+batch_size]
BatchAt(i) == SubSeq(domains_list, i + 1, Min(i + batch_size, Len(domains_list)))

\* batch_query_dns(file_path=None), up to the loop over the batches: the
\* domains to query are those of the file when one is named and
\* collected_domains otherwise; without any the call returns (0, 0, None).
batch_query_dns_start ==
    /\ bpc = "idle"
    /\ LET load == IF file_path # NoPath
                   THEN load_domains_from_file(file_path)
                   ELSE [returned |-> collected_domains,
                         tool |-> [collected_domains |-> collected_domains,
                                   only_subdomains |-> only_subdomains,
                                   base_domain |-> base_domain,
                                   dns_results |-> dns_results],
                         messages |-> << >>]
           domains_to_query == load.returned
       IN  /\ collected_domains' = load.tool.collected_domains
           /\ only_subdomains' = load.tool.only_subdomains
           /\ base_domain' = load.tool.base_domain
           /\ loaded' = IF file_path # NoPath
                        THEN [called |-> TRUE, returned |-> load.returned,
                              before |-> collected_domains]
                        ELSE loaded
           /\ load_messages' = load_messages \o load.messages
           /\ IF domains_to_query = {}
              THEN /\ bpc' = "done"
                   /\ dns_results' = load.tool.dns_results
                   /\ UNCHANGED <<domains_list, success_count, batch_index, future>>
              ELSE /\ bpc' = "submit"
                   /\ dns_results' = [d \in Domains |-> NoResult]
                   /\ success_count' = 0
                   /\ batch_index' = 0
                   /\ future' = [d \in Domains |-> "none"]
                   /\ \E order \in Orders(domains_to_query) : domains_list' = order
    /\ UNCHANGED <<frontend, target_count, visited_domains, domains_to_visit, lock>>
    /\ UNCHANGED <<batch_size, dns_max_workers, progress_events>>
    /\ UNCHANGED <<limiter_vars, thread_vars, crawl_vars, history_vars>>
    /\ UNCHANGED file_vars
    /\ UNCHANGED tuning_vars
    /\ UNCHANGED file_path
    /\ UNCHANGED gui_vars

\* future_results = [executor.submit(self.query_dns, domain) for domain in batch]
batch_query_dns_submit ==
    /\ bpc = "submit"
    /\ batch_index < Len(domains_list)
    /\ queue' = BatchAt(batch_index)
    /\ future' = [d \in Domains |->
                    IF \E k \in 1..Len(BatchAt(batch_index)) : BatchAt(batch_index)[k] = d
                    THEN "pending" ELSE future[d]]
    /\ bpc' = "wait"
    /\ UNCHANGED <<cpc, start_domain, start_only_subdomains, collect_threads>>
    /\ UNCHANGED <<batch_size, dns_max_workers, progress_events, domains_list,
                   batch_index, success_count>>
    /\ UNCHANGED <<limiter_vars, thread_vars, tool_vars, history_vars>>
    /\ UNCHANGED file_vars
    /\ UNCHANGED tuning_vars
    /\ UNCHANGED input_vars
    /\ UNCHANGED gui_vars

BatchOf(i) == {BatchAt(i)[k] : k \in 1..Len(BatchAt(i))}

\* batch_success_count = sum(1 for flag in batch_success_flags if flag)
BatchSuccessCount(i) == Cardinality({d \in BatchOf(i) : future[d] = "true"})

ProgressEventSwapped(success, processed, total) ==
    [success_count |-> processed, processed_count |-> success, total_count |-> total]
\* self.progress_callback(message, success_count, processed_count, total_count)
ProgressEvent(success, processed, total) ==
    [success_count |-> success, processed_count |-> processed, total_count |-> total]

\* batch_success_flags = [future.result() for future in future_results]: every
\* task of the batch has ended.  A future that holds an exception re-raises it
\* here, and batch_query_dns ends with it; otherwise the counts are updated and
\* the progress callback is called.
batch_query_dns_join ==
    /\ bpc = "wait"
    /\ queue = << >>
    /\ \A d \in BatchOf(batch_index) : future[d] \in {"true", "false", "raised"}
    /\ IF \E d \in BatchOf(batch_index) : future[d] = "raised"
       THEN /\ bpc' = "raised"
            /\ UNCHANGED <<success_count, batch_index, progress_events>>
       ELSE /\ bpc' = "submit"
            /\ success_count' = success_count + BatchSuccessCount(batch_index)
            /\ batch_index' = batch_index + batch_size
            /\ progress_events' = Append(progress_events,
                  ProgressEvent(success_count + BatchSuccessCount(batch_index),
                                batch_index + Len(BatchAt(batch_index)),
                                Len(domains_list)))
    /\ UNCHANGED <<batch_size, dns_max_workers, domains_list, future>>
    /\ UNCHANGED <<limiter_vars, thread_vars, tool_vars, crawl_vars, history_vars>>
    /\ UNCHANGED file_vars
    /\ UNCHANGED tuning_vars
    /\ UNCHANGED input_vars
    /\ UNCHANGED gui_vars

\* The loop is over: the summary message, return success_count, total_count,
\* self.dns_results.
batch_query_dns_finish ==
    /\ bpc = "submit"
    /\ batch_index >= Len(domains_list)
    /\ bpc' = "done"
    /\ UNCHANGED <<batch_size, dns_max_workers, progress_events, domains_list,
                   batch_index, success_count, future>>
    /\ UNCHANGED <<limiter_vars, thread_vars, tool_vars, crawl_vars, history_vars>>
    /\ UNCHANGED file_vars
    /\ UNCHANGED tuning_vars
    /\ UNCHANGED input_vars
    /\ UNCHANGED gui_vars

\* A pool thread takes the next submitted task, query_dns(domain), which first
\* calls self.rate_limiter.wait_if_needed().  The threads of the pool are
\* interchangeable: the idle one of lowest number takes the task.
query_dns_begin(w) ==
    /\ wpc[w] = "idle"
    /\ w \in PoolThreads
    /\ \A v \in PoolThreads : v < w => wpc[v] # "idle"
    /\ bpc = "wait"
    /\ queue # << >>
    /\ wdom' = [wdom EXCEPT ![w] = Head(queue)]
    /\ queue' = Tail(queue)
    /\ wtask' = [wtask EXCEPT ![w] = "query"]
    /\ wpc' = [wpc EXCEPT ![w] = "rl_wait"]
    /\ wadmitted' = [wadmitted EXCEPT ![w] = FALSE]
    /\ UNCHANGED <<wlinks, cpc, start_domain, start_only_subdomains, collect_threads>>
    /\ UNCHANGED <<limiter_vars, tool_vars, history_vars, batch_vars>>
    /\ UNCHANGED file_vars
    /\ UNCHANGED tuning_vars
    /\ UNCHANGED input_vars
    /\ UNCHANGED gui_vars

\* The exception of wait_if_needed leaves query_dns: it ends the task and is
\* held by its future.
query_dns_raise(w) ==
    /\ wpc[w] = "raised"
    /\ wtask[w] = "query"
    /\ future' = [future EXCEPT ![wdom[w]] = "raised"]
    /\ wpc' = [wpc EXCEPT ![w] = "idle"]
    /\ wtask' = [wtask EXCEPT ![w] = "none"]
    /\ wdom' = [wdom EXCEPT ![w] = D_seed]
    /\ UNCHANGED <<wlinks, wadmitted>>
    /\ UNCHANGED <<bpc, batch_size, dns_max_workers, progress_events, domains_list,
                   batch_index, success_count>>
    /\ UNCHANGED <<limiter_vars, tool_vars, crawl_vars, history_vars>>
    /\ UNCHANGED file_vars
    /\ UNCHANGED tuning_vars
    /\ UNCHANGED input_vars
    /\ UNCHANGED gui_vars

KeptFirst(first, second) == first
\* if not result['error']: result['error'] = str(dns_error)
KeptError(first, second) == IF first \in {NoError, ""} THEN second ELSE first

AddressesOfFirst(answers) == <<answers[1].address>>
\* [str(rdata) for rdata in answers]
AddressesOf(answers) == [i \in 1..Len(answers) |-> answers[i].address]

\* query_dns after the limiter.  The fast path, socket.gethostbyname(domain):
\* on success the result is stored and True returned.  On failure the error is
\* kept in the result and message_callback(..., is_error=True) is called: a
\* callback without that keyword raises TypeError inside the except block,
\* which leaves query_dns with nothing stored.  Otherwise the fallback,
\* dns.resolver's resolve(domain, 'A'), decides; the result is stored and its
\* success flag returned.
query_dns_resolve(w) ==
    /\ wpc[w] = "q_fast"
    /\ LET d == wdom[w] IN
       /\ unadmitted_lookups' = IF wadmitted[w] THEN unadmitted_lookups
                                ELSE unadmitted_lookups \cup {d}
       /\ \/ /\ dns_results' = [dns_results EXCEPT ![d] = SuccessResult(d)]
             /\ future' = [future EXCEPT ![d] = "true"]
             /\ lookups' = [lookups EXCEPT ![d] =
                              Lookup("ok", "", "not_invoked", << >>, "")]
          \/ \E socket_error \in SocketErrors :
                IF AcceptsIsError(frontend)
                THEN \/ \E answers \in Answers(d) :
                          /\ dns_results' = [dns_results EXCEPT ![d] =
                                [success |-> TRUE, ip_addresses |-> AddressesOf(answers),
                                 error |-> NoError]]
                          /\ future' = [future EXCEPT ![d] = "true"]
                          /\ lookups' = [lookups EXCEPT ![d] =
                                Lookup("failed", socket_error, "answered", answers, "")]
                     \/ \E dns_error \in ResolverErrors :
                          /\ dns_results' = [dns_results EXCEPT ![d] =
                                FailureResult(KeptError(socket_error, dns_error))]
                          /\ future' = [future EXCEPT ![d] = "false"]
                          /\ lookups' = [lookups EXCEPT ![d] =
                                Lookup("failed", socket_error, "failed", << >>, dns_error)]
                ELSE /\ future' = [future EXCEPT ![d] = "raised"]
                     /\ lookups' = [lookups EXCEPT ![d] =
                           Lookup("failed", socket_error, "not_invoked", << >>, "")]
                     /\ UNCHANGED dns_results
    /\ wpc' = [wpc EXCEPT ![w] = "idle"]
    /\ wtask' = [wtask EXCEPT ![w] = "none"]
    /\ wadmitted' = [wadmitted EXCEPT ![w] = FALSE]
    /\ wdom' = [wdom EXCEPT ![w] = D_seed]
    /\ UNCHANGED <<frontend, target_count, only_subdomains, base_domain, visited_domains,
                   domains_to_visit, collected_domains, lock>>
    /\ UNCHANGED <<wlinks, fetch_count, fetch_failed>>
    /\ UNCHANGED <<bpc, batch_size, dns_max_workers, progress_events, domains_list,
                   batch_index, success_count>>
    /\ UNCHANGED <<limiter_vars, crawl_vars>>
    /\ UNCHANGED file_vars
    /\ UNCHANGED tuning_vars
    /\ UNCHANGED input_vars
    /\ UNCHANGED gui_vars

QueryWorker(w) ==
    \/ query_dns_begin(w)
    \/ wait_if_needed_enter(w)
    \/ wait_if_needed_append(w)
    \/ query_dns_raise(w)
    \/ query_dns_resolve(w)

BatchCoordinator ==
    \/ batch_query_dns_start
    \/ batch_query_dns_submit
    \/ batch_query_dns_join
    \/ batch_query_dns_finish

\* The tool is constructed by either front end, with a configuration file the
\* user may have edited, and holds the domains of an earlier crawl or import.
InitBatch ==
    /\ LimiterInit
    /\ ThreadsInit
    /\ HistoryInit
    /\ FilesInit
    /\ InputIdle
    /\ GuiIdle
    /\ TuningIdle
    /\ CrawlIdle
    /\ visited_domains = {}
    /\ domains_to_visit = {}
    /\ collected_domains \in {FirstDomains(k) : k \in 0..Min(MaxQueryDomains, Len(DomainSeq))}
    /\ dns_results = [d \in Domains |-> NoResult]
    /\ only_subdomains = FALSE
    /\ base_domain = << >>
    /\ lock = NoThread
    /\ frontend \in Frontends
    /\ target_count = 0
    /\ bpc = "idle"
    /\ batch_size \in 1..MaxBatchSize
    /\ dns_max_workers \in 1..NumThreads
    /\ progress_events = << >>
    /\ domains_list = << >>
    /\ batch_index = 0
    /\ success_count = 0
    /\ future = [d \in Domains |-> "none"]

\* The clock is read by the limiter alone: it advances while a call is inside
\* time.sleep(sleep_time), up to the instant the sleep ends.  Every other
\* step takes no time here; the limiter under a free clock is SpecLimiter.
NextBatch ==
    \/ ((\E w \in Threads : /\ wpc[w] \in {"rl_sleep", "rl_sleep_old"}
                             /\ now < sleep_until[w]) /\ Tick)
    \/ BatchCoordinator
    \/ \E w \in Threads : QueryWorker(w)

SpecBatch == InitBatch /\ [][NextBatch]_vars

\* The results of an earlier batch query that the tool still holds.
OldResult(d) == [success |-> TRUE, ip_addresses |-> <<<<"old", d>>>>, error |-> NoError]

\* The tool holds the domains and, possibly, the results of an earlier batch
\* query; batch_query_dns is called, with or without a file.
InitLoad ==
    /\ now = 0
    /\ queries_per_second \in {0, 1}
    /\ query_times = << >>
    /\ rl_lock = NoThread
    /\ sleep_until = [w \in Threads |-> 0]
    /\ admitted = << >>
    /\ ThreadsInit
    /\ HistoryInit
    /\ FilesInit
    /\ TuningIdle
    /\ CrawlIdle
    /\ visited_domains = {}
    /\ domains_to_visit = {}
    /\ collected_domains \in {FirstDomains(k) : k \in 0..1}
    /\ \E queried \in BOOLEAN :
          dns_results = [d \in Domains |-> IF queried /\ d \in collected_domains
                                           THEN OldResult(d) ELSE NoResult]
    /\ only_subdomains = FALSE
    /\ base_domain = << >>
    /\ lock = NoThread
    /\ frontend \in Frontends
    /\ target_count = 0
    /\ bpc = "idle"
    /\ batch_size = 1
    /\ dns_max_workers = NumThreads
    /\ progress_events = << >>
    /\ domains_list = << >>
    /\ batch_index = 0
    /\ success_count = 0
    /\ future = [d \in Domains |-> "none"]
    /\ file_path \in InputFiles \cup {NoPath}
    /\ loaded = NotLoaded
    /\ load_messages = << >>
    /\ GuiIdle

SpecLoad == InitLoad /\ [][NextBatch]_vars

\* ------------------------------------- the configuration saved during a call
\* ConfigEditorDialog.save_configuration after a successful save_config (and
\* PerformanceTestDialog's apply of the recommended settings, which does the
\* same): target_count is read again and self.dns_tool_instance.rate_limiter
\* is replaced by a new DNSRateLimiter, with an empty query_times and a lock of
\* its own.  The Edit Configuration button is never disabled, so this happens
\* at any moment of a running call.  A thread inside wait_if_needed of the
\* replaced limiter goes on with that object.
save_configuration ==
    /\ frontend = "gui"
    /\ bpc \in {"submit", "wait"}
    /\ \E qps \in 1..MaxQps : queries_per_second' = qps
    /\ \E t \in {target_count, MaxTarget} : target_count' = t
    /\ query_times' = << >>
    /\ rl_lock' = NoThread
    /\ wpc' = [w \in Threads |-> IF wpc[w] = "rl_sleep" THEN "rl_sleep_old" ELSE wpc[w]]
    /\ UNCHANGED <<now, sleep_until, admitted>>
    /\ UNCHANGED <<wtask, wdom, wlinks, wadmitted>>
    /\ UNCHANGED <<frontend, only_subdomains, base_domain, visited_domains,
                   domains_to_visit, collected_domains, dns_results, lock>>
    /\ UNCHANGED <<crawl_vars, history_vars, batch_vars>>
    /\ UNCHANGED file_vars
    /\ UNCHANGED tuning_vars
    /\ UNCHANGED input_vars
    /\ UNCHANGED gui_vars

\* wait_if_needed, second half, in a limiter that has been replaced meanwhile:
\* the timestamp is appended to the query_times of the old object, which no
\* later call reads, and the old lock is released.
wait_if_needed_append_old(w) ==
    /\ wpc[w] = "rl_sleep_old"
    /\ now >= sleep_until[w]
    /\ admitted' = Append(admitted, now)
    /\ sleep_until' = [sleep_until EXCEPT ![w] = 0]
    /\ wpc' = [wpc EXCEPT ![w] = AfterAdmit(w)]
    /\ wadmitted' = [wadmitted EXCEPT ![w] = (wtask[w] # "limiter")]
    /\ UNCHANGED <<now, queries_per_second, query_times, rl_lock, wtask, wdom, wlinks>>
    /\ UNCHANGED <<tool_vars, crawl_vars, history_vars>>
    /\ UNCHANGED batch_vars
    /\ UNCHANGED file_vars
    /\ UNCHANGED tuning_vars
    /\ UNCHANGED input_vars
    /\ UNCHANGED gui_vars

\* The GUI's tool, about to run a batch query.
InitBatchConfig ==
    /\ InitBatch
    /\ frontend = "gui"

NextBatchConfig ==
    \/ NextBatch
    \/ save_configuration
    \/ \E w \in Threads : wait_if_needed_append_old(w)

SpecBatchConfig == InitBatchConfig /\ [][NextBatchConfig]_vars

\* ------------------------------------------------------ the subdomain filter
\* The values self.base_domain takes: None or the empty string (from __init__
\* or from the metadata of a loaded file), or a domain.
BaseDomains == Domains \cup {<< >>}

\* if self.is_subdomain(extracted_domain): links.add(extracted_domain), for one
\* extracted domain.
is_subdomain_call(w) ==
    /\ wpc[w] = "idle"
    /\ \E d \in Domains :
          /\ wdom' = [wdom EXCEPT ![w] = d]
          /\ wlinks' = [wlinks EXCEPT ![w] = IF is_subdomain(d) THEN {d} ELSE {}]
    /\ wpc' = [wpc EXCEPT ![w] = "filtered"]
    /\ UNCHANGED <<wtask, wadmitted>>
    /\ UNCHANGED <<limiter_vars, tool_vars, crawl_vars, history_vars, batch_vars>>
    /\ UNCHANGED file_vars
    /\ UNCHANGED tuning_vars
    /\ UNCHANGED input_vars
    /\ UNCHANGED gui_vars

\* The caller goes on to the next extracted domain.
is_subdomain_next(w) ==
    /\ wpc[w] = "filtered"
    /\ wpc' = [wpc EXCEPT ![w] = "idle"]
    /\ wdom' = [wdom EXCEPT ![w] = D_seed]
    /\ wlinks' = [wlinks EXCEPT ![w] = {}]
    /\ UNCHANGED <<wtask, wadmitted>>
    /\ UNCHANGED <<limiter_vars, tool_vars, crawl_vars, history_vars, batch_vars>>
    /\ UNCHANGED file_vars
    /\ UNCHANGED tuning_vars
    /\ UNCHANGED input_vars
    /\ UNCHANGED gui_vars

\* A tool whose scope was set by collect_domains or by a loaded file.
InitFilter ==
    /\ now = 0
    /\ queries_per_second = 1
    /\ query_times = << >>
    /\ rl_lock = NoThread
    /\ sleep_until = [w \in Threads |-> 0]
    /\ admitted = << >>
    /\ ThreadsInit
    /\ HistoryInit
    /\ FilesInit
    /\ InputIdle
    /\ GuiIdle
    /\ TuningIdle
    /\ CrawlIdle
    /\ BatchIdle
    /\ frontend = "cli"
    /\ target_count = 0
    /\ visited_domains = {}
    /\ domains_to_visit = {}
    /\ collected_domains = {}
    /\ dns_results = [d \in Domains |-> NoResult]
    /\ lock = NoThread
    /\ only_subdomains \in BOOLEAN
    /\ base_domain \in BaseDomains

NextFilter ==
    \/ \E w \in Threads : is_subdomain_call(w)
    \/ \E w \in Threads : is_subdomain_next(w)

SpecFilter == InitFilter /\ [][NextFilter]_vars

\* ------------------------------------------------------- the tuning harness
\* A quotient n / d of two measured integers, kept as the pair <<n, d>> with
\* d > 0; the 0 of an empty sample or an unmeasurable time is 0 / 1.
Zero == <<0, 1>>
AtLeast(a, b) == a[1] * b[2] >= b[1] * a[2]

\* What query_dns of the tester returns for one domain of the sample: a
\* successful lookup after some time, or a failure after the longest wait.
QueryOutcomes ==
    {[success |-> TRUE, query_time |-> t] : t \in {1, MaxQueryTime}}
        \cup {[success |-> FALSE, query_time |-> MaxQueryTime + 1]}

\* len(self.test_domains): none, fewer than a sample holds, more than that.
TestDomainCounts == {0, SampleCap - 1, SampleCap + 1}

\* total_time of a trial: too short to be measured, or some seconds.
TrialTimes == {0, MaxTrialTime}

AllTimes(results) == [i \in 1..Len(results) |-> results[i].query_time]
\* query_times = [r['query_time'] for r in results if r['success']]
SuccessfulTimes(results) ==
    LET successful == SelectSeq(results, LAMBDA r : r.success)
    IN  [i \in 1..Len(successful) |-> successful[i].query_time]

RECURSIVE SumOf(_)
SumOf(times) == IF times = << >> THEN 0 ELSE Head(times) + SumOf(Tail(times))

\* statistics.mean(query_times) if query_times else 0
Mean(times) == IF times = << >> THEN Zero ELSE <<SumOf(times), Len(times)>>

\* sorted(data)
RECURSIVE SortedTimes(_)
SortedTimes(times) ==
    IF times = << >> THEN << >>
    ELSE LET rest == SortedTimes(Tail(times))
             below == SelectSeq(rest, LAMBDA t : t < Head(times))
             above == SelectSeq(rest, LAMBDA t : t >= Head(times))
         IN  below \o <<Head(times)>> \o above

\* statistics.median(query_times) if query_times else 0
Median(times) ==
    IF times = << >> THEN Zero
    ELSE LET data == SortedTimes(times)
             n == Len(data)
         IN  IF n % 2 = 1 THEN <<data[(n + 1) \div 2], 1>>
             ELSE <<data[n \div 2] + data[n \div 2 + 1], 2>>

\* The test_result of a trial whose queries returned results after total_time.
TestResult(param_name, param_value, test_params, results, total_time) ==
    LET successful_queries == Cardinality({i \in 1..Len(results) : results[i].success})
        successful_times == SuccessfulTimes(results)
    IN  [param_name |-> param_name,
         param_value |-> param_value,
         total_time |-> total_time,
         success_rate |-> IF results # << >>
                          THEN <<successful_queries, Len(results)>> ELSE Zero,
         avg_query_time |-> Mean(successful_times),
         median_query_time |-> Median(successful_times),
         queries_per_second |-> IF total_time > 0
                                THEN <<Len(results), total_time>> ELSE Zero,
         sample_size |-> Len(results),
         test_params |-> test_params,
         results |-> results,
         plan |-> << >>]

\* The entries of a test_result that are read after the trial: by the
\* selection and by the report.  (The latency statistics of an earlier trial
\* are only dumped.)
Recorded(r) ==
    [param_value |-> r.param_value, total_time |-> r.total_time,
     success_rate |-> r.success_rate, queries_per_second |-> r.queries_per_second]

\* x.get('queries_per_second', 0) * x.get('success_rate', 0)
Score(r) ==
    <<r.queries_per_second[1] * r.success_rate[1],
      r.queries_per_second[2] * r.success_rate[2]>>

LastMaximal(results) ==
    CHOOSE i \in 1..Len(results) :
        /\ \A j \in 1..Len(results) : AtLeast(Score(results[i]), Score(results[j]))
        /\ \A j \in (i + 1)..Len(results) : ~AtLeast(Score(results[j]), Score(results[i]))
\* max() keeps the first of the items whose key is maximal: the position of
\* the result that no result outscores and that every earlier one scores below.
FirstMaximal(results) ==
    CHOOSE i \in 1..Len(results) :
        /\ \A j \in 1..Len(results) : AtLeast(Score(results[i]), Score(results[j]))
        /\ \A j \in 1..(i - 1) : ~AtLeast(Score(results[j]), Score(results[i]))

FirstResult(results) == results[1]
\* max(param_results, key=score): the first result of maximal score.
BestResult(results) == results[FirstMaximal(results)]

Unsorted(results) == results
\* sorted(results, key=score, reverse=True): stable, the larger score first.
RECURSIVE SortedByScore(_)
SortedByScore(results) ==
    IF results = << >> THEN << >>
    ELSE LET rest == SortedByScore(Tail(results))
             before == SelectSeq(rest, LAMBDA r : ~AtLeast(Score(Head(results)), Score(r)))
             after == SelectSeq(rest, LAMBDA r : AtLeast(Score(Head(results)), Score(r)))
         IN  before \o <<Head(results)>> \o after

\* str(value) of a non-negative integer, as json.dump and str.format write it.
RECURSIVE Digits(_)
Digits(n) == IF n < 10 THEN <<n>> ELSE Digits(n \div 10) \o <<n % 10>>

\* The paths of output_dir.
BestParamsFile == <<"best_params", "json">>
OptimalConfigFile == <<"optimal_config", "ini">>
ReadableResultsFile == <<"dns_performance_test_results", "txt">>
ParamTestFile(param_name) == <<"param_test", param_name>>

\* The contents: the parameter values as written, and the rows of the report.
ParamsWritten(params) == [p \in DOMAIN params |-> Digits(params[p])]
ArtifactOf(params, rows) == [params |-> params, rows |-> rows]
ReportRows == [p \in DOMAIN all_param_results |-> SortedByScore(all_param_results[p])]

\* What output_callback is told about a write, or that the write raised.
Told(event, path) == [event |-> event, file |-> path]

\* The tester is constructed with the tool's configuration; run_tests begins.
InitTuning ==
    /\ now = 0
    /\ queries_per_second = 1
    /\ query_times = << >>
    /\ rl_lock = NoThread
    /\ sleep_until = [w \in Threads |-> 0]
    /\ admitted = << >>
    /\ ThreadsInit
    /\ ToolInit
    /\ HistoryInit
    /\ FilesInit
    /\ InputIdle
    /\ GuiIdle
    /\ CrawlIdle
    /\ BatchIdle
    /\ frontend = "cli"
    /\ target_count = 0
    /\ tpc = "testing"
    /\ test_domains \in TestDomainCounts
    /\ initial_params \in {[DefaultParams EXCEPT !.MaxWorkers = m] : m \in {0, 12}}
    /\ default_params = initial_params
    /\ param_index = 1
    /\ value_index = 1
    /\ param_results = << >>
    /\ all_param_results = << >>
    /\ test_result = NoTrial
    /\ artifacts = << >>
    /\ tuning_log = << >>

TrialPlanByThreads(test_params, sample_size) ==
    [rate |-> test_params["QueriesPerSecond"],
     max_workers |-> test_params["CollectThreads"],
     timeout |-> test_params["Timeout"],
     batches |-> [k \in 1..sample_size |-> <<k>>]]
\* What a trial sets up from test_params before it queries: the rate of its
\* QueryRateLimiter, the size of its pool, the timeout handed to query_dns and
\* the slices test_sample[i:i+batch_size] of the sample (as positions), which
\* are submitted and joined one after the other.
TrialPlan(test_params, sample_size) ==
    LET size == test_params["BatchSize"]
        count == IF size <= 0 THEN 0
                 ELSE (sample_size + size - 1) \div size
    IN  [rate |-> test_params["QueriesPerSecond"],
         max_workers |-> test_params["MaxWorkers"],
         timeout |-> test_params["Timeout"],
         batches |-> [k \in 1..count |->
                        [j \in 1..(Min(k * size, sample_size) - (k - 1) * size)
                            |-> (k - 1) * size + j]]]

\* test_parameter(param_name, param_value): the trial runs with a copy of
\* default_params in which the parameter has the candidate value, on a sample
\* of min(100, len(test_domains)) domains.  ThreadPoolExecutor(max_workers)
\* raises ValueError for max_workers <= 0, range(0, n, 0) raises ValueError.
TrialOf(param_name, param_value) ==
    LET test_params == [default_params EXCEPT ![param_name] = param_value]
        sample_size == Min(SampleCap, test_domains)
        plan == TrialPlan(test_params, sample_size)
    IN  IF plan.max_workers <= 0 \/ test_params["BatchSize"] = 0
        THEN /\ tpc' = "raised"
             /\ UNCHANGED <<param_results, test_result>>
        ELSE /\ \E results \in [1..sample_size -> QueryOutcomes],
                   total_time \in TrialTimes :
                   /\ test_result' = [TestResult(param_name, param_value, test_params,
                                                 results, total_time)
                                        EXCEPT !.plan = plan]
                   /\ param_results' = Append(param_results, Recorded(test_result'))
             /\ UNCHANGED tpc

\* One turn of the inner loop of run_tests: test_parameter(param_name, value)
\* for the next candidate of the parameter being tuned.
test_parameter ==
    /\ tpc = "testing"
    /\ param_index <= Len(ParamOrder)
    /\ value_index <= Len(param_ranges[ParamOrder[param_index]])
    /\ TrialOf(ParamOrder[param_index], param_ranges[ParamOrder[param_index]][value_index])
    /\ value_index' = IF tpc' = "raised" THEN value_index ELSE value_index + 1
    /\ UNCHANGED <<test_domains, initial_params, default_params, param_index,
                   all_param_results, artifacts, tuning_log>>
    /\ UNCHANGED <<limiter_vars, thread_vars, tool_vars, crawl_vars, history_vars,
                   batch_vars, file_vars>>
    /\ UNCHANGED input_vars
    /\ UNCHANGED gui_vars

\* run_tests after the trials of a parameter: the value of the best result
\* becomes the parameter's value in default_params, and save_param_results
\* writes the trials (a failed write is told and swallowed) and keeps them in
\* all_param_results.  The test_result of the last trial is not used again.
run_tests_select ==
    /\ tpc = "testing"
    /\ param_index <= Len(ParamOrder)
    /\ value_index > Len(param_ranges[ParamOrder[param_index]])
    /\ LET param_name == ParamOrder[param_index] IN
       /\ default_params' =
             IF param_results # << >>
             THEN [default_params EXCEPT ![param_name] = BestResult(param_results).param_value]
             ELSE default_params
       /\ \E write_ok \in BOOLEAN :
             /\ artifacts' = IF write_ok
                             THEN Written(artifacts, ParamTestFile(param_name),
                                          ArtifactOf(<< >>, param_results))
                             ELSE artifacts
             /\ tuning_log' = Append(tuning_log,
                                 Told(IF write_ok THEN "saved" ELSE "save_failed",
                                      ParamTestFile(param_name)))
       /\ all_param_results' = Written(all_param_results, param_name, param_results)
    /\ param_index' = param_index + 1
    /\ value_index' = 1
    /\ param_results' = << >>
    /\ test_result' = NoTrial
    /\ UNCHANGED <<tpc, test_domains, initial_params>>
    /\ UNCHANGED <<limiter_vars, thread_vars, tool_vars, crawl_vars, history_vars,
                   batch_vars, file_vars>>
    /\ UNCHANGED input_vars
    /\ UNCHANGED gui_vars

\* save_best_params, called when the outer loop has ended: best_params.json
\* inside try/except; optimal_config.ini once without a try and once within
\* one; then save_readable_results, whose write has no try either.  A failed
\* write outside a try leaves run_tests as an exception.
save_best_params ==
    /\ tpc = "testing"
    /\ param_index > Len(ParamOrder)
    /\ \E best_ok \in BOOLEAN, config_ok \in BOOLEAN, again_ok \in BOOLEAN,
          readable_ok \in BOOLEAN :
          LET written_params == ArtifactOf(ParamsWritten(default_params), << >>)
              after_best == IF best_ok
                            THEN Written(artifacts, BestParamsFile, written_params)
                            ELSE artifacts
              best_told == <<Told(IF best_ok THEN "saved" ELSE "save_failed",
                                  BestParamsFile)>>
              after_config == Written(after_best, OptimalConfigFile, written_params)
              again_told == <<Told(IF again_ok THEN "saved" ELSE "save_failed",
                                   OptimalConfigFile)>>
          IN  IF ~config_ok
              THEN /\ artifacts' = after_best
                   /\ tuning_log' = tuning_log \o best_told
                                       \o <<Told("raised", OptimalConfigFile)>>
                   /\ tpc' = "raised"
              ELSE IF ~readable_ok
              THEN /\ artifacts' = after_config
                   /\ tuning_log' = tuning_log \o best_told \o again_told
                                       \o <<Told("raised", ReadableResultsFile)>>
                   /\ tpc' = "raised"
              ELSE /\ artifacts' = Written(after_config, ReadableResultsFile,
                                           ArtifactOf(ParamsWritten(default_params),
                                                      ReportRows))
                   /\ tuning_log' = tuning_log \o best_told \o again_told
                                       \o <<Told("saved", ReadableResultsFile)>>
                   /\ tpc' = "done"
    /\ UNCHANGED <<test_domains, initial_params, default_params, param_index,
                   value_index, param_results, all_param_results, test_result>>
    /\ UNCHANGED <<limiter_vars, thread_vars, tool_vars, crawl_vars, history_vars,
                   batch_vars, file_vars>>
    /\ UNCHANGED input_vars
    /\ UNCHANGED gui_vars

NextTuning ==
    \/ test_parameter
    \/ run_tests_select
    \/ save_best_params

SpecTuning == InitTuning /\ [][NextTuning]_vars

\* The candidates of param_ranges['CollectThreads'] that are tried here.
CollectThreadsRange == <<3, 5>>

\* A tester whose configuration holds any of a few values for the parameters
\* a trial reads; the trials of the CollectThreads parameter begin.
InitTrial ==
    /\ now = 0
    /\ queries_per_second = 1
    /\ query_times = << >>
    /\ rl_lock = NoThread
    /\ sleep_until = [w \in Threads |-> 0]
    /\ admitted = << >>
    /\ ThreadsInit
    /\ ToolInit
    /\ HistoryInit
    /\ FilesInit
    /\ InputIdle
    /\ GuiIdle
    /\ CrawlIdle
    /\ BatchIdle
    /\ frontend = "cli"
    /\ target_count = 0
    /\ tpc = "testing"
    /\ test_domains \in TestDomainCounts
    /\ initial_params \in
          {[DefaultParams EXCEPT !.QueriesPerSecond = q, !.MaxWorkers = m,
                                 !.Timeout = t, !.BatchSize = b] :
             q \in 1..MaxQps, m \in 0..NumThreads, t \in 1..MaxQueryTime,
             b \in 0..MaxBatchSize}
    /\ default_params = initial_params
    /\ param_index = 1
    /\ value_index = 1
    /\ param_results = << >>
    /\ all_param_results = << >>
    /\ test_result = NoTrial
    /\ artifacts = << >>
    /\ tuning_log = << >>

\* run_tests in its loop over param_ranges['CollectThreads']:
\* test_parameter('CollectThreads', value) for the next candidate.
test_parameter_CollectThreads ==
    /\ tpc = "testing"
    /\ value_index <= Len(CollectThreadsRange)
    /\ TrialOf("CollectThreads", CollectThreadsRange[value_index])
    /\ value_index' = IF tpc' = "raised" THEN value_index ELSE value_index + 1
    /\ UNCHANGED <<test_domains, initial_params, default_params, param_index,
                   all_param_results, artifacts, tuning_log>>
    /\ UNCHANGED <<limiter_vars, thread_vars, tool_vars, crawl_vars, history_vars,
                   batch_vars, file_vars>>
    /\ UNCHANGED input_vars
    /\ UNCHANGED gui_vars

NextTrial == test_parameter_CollectThreads

SpecTrial == InitTrial /\ [][NextTrial]_vars

\* ------------------------------------------------------------ the claims

\* The admissions of the history that fall into the trailing window (T - 1.0, T].
InWindow(T) ==
    {j \in 1..Len(admitted) : T - TicksPerSecond < admitted[j] /\ admitted[j] <= T}

\* C1: with queries_per_second >= 1, for every recorded admission timestamp T
\* the trailing window (T - 1.0, T] holds at most queries_per_second recorded
\* admissions, in every interleaving of the calling threads.
C1_WindowCap ==
    queries_per_second >= 1 =>
        \A i \in 1..Len(admitted) :
            Cardinality(InWindow(admitted[i])) <= queries_per_second

\* C1 witness: a caller had to sleep: more admissions than the cap are
\* recorded and they span more than one window.
C1_Witness ==
    /\ queries_per_second >= 1
    /\ Len(admitted) > queries_per_second
    /\ admitted[Len(admitted)] - admitted[1] >= TicksPerSecond
    /\ \E i \in 1..Len(admitted) :
          Cardinality(InWindow(admitted[i])) = queries_per_second

\* The domains handed to the pool whose task has not ended.
InFlight ==
    {queue[i] : i \in 1..Len(queue)} \cup {wdom[w] : w \in {v \in Threads : wtask[v] = "process"}}

\* C2: in every state of a crawl, between any two steps of the concurrent
\* process_domain tasks, collected_domains is a subset of visited_domains.
C2_CollectedSubsetVisited == collected_domains \subseteq visited_domains

\* C2 witness: a domain is collected while another task is between its guard
\* and its fetch.
C2_Witness ==
    /\ collected_domains # {}
    /\ \E w \in Threads : wpc[w] \in {"p_mark", "p_lock"}

\* C3: within one crawl get_links_from_domain runs at most once per domain.
C3_FetchedAtMostOnce == \A d \in Domains : fetch_count[d] <= 1

\* C3 witness: a domain that was fetched is handed to the pool a second time.
C3_Witness ==
    \E i \in 1..Len(queue) :
        fetch_count[queue[i]] = 1 /\ queue[i] \in visited_domains

\* C4: no domain popped from domains_to_visit for processing is in neither
\* domains_to_visit nor visited_domains.
C4_PopAtomicWithVisited ==
    \A d \in InFlight : d \in domains_to_visit \cup visited_domains

\* C5: a domain whose page fetch failed is never in collected_domains.
C5_FailedNeverCollected == collected_domains \cap fetch_failed = {}

\* C6: the failure of one domain never aborts batch_query_dns: the call does
\* not end by an exception, and when it ends every domain of the run has been
\* processed.
C6_FailureNeverAborts ==
    /\ bpc # "raised"
    /\ bpc = "done" => \A d \in collected_domains : future[d] \in {"true", "false"}

\* C7: query_dns never raises; when it has returned, exactly the result it
\* returned the flag of is stored for the domain, with a non-empty error when
\* no stage produced an address.
C7_QueryNeverRaises ==
    \A d \in Domains :
        /\ future[d] # "raised"
        /\ future[d] = "true" => dns_results[d].success
        /\ future[d] = "false" =>
              /\ ~dns_results[d].success
              /\ dns_results[d].error \notin {NoError, "", "unset"}

\* C8: every name lookup of an engine is preceded, in the same task, by a call
\* of the limiter's wait_if_needed.
C8_LookupsAdmitted == unadmitted_lookups = {}

\* C10: under fair scheduling the crawl loop exits, and at its exit
\* domains_to_visit is empty or target_count is reached.
C10_CrawlTerminates ==
    /\ <>(cpc = "done")
    /\ [](cpc = "done" =>
            (domains_to_visit = {} \/ Cardinality(collected_domains) >= target_count))

\* C10 witness: the crawl ended on an exhausted frontier, short of target_count.
C10_Witness ==
    /\ cpc = "done"
    /\ domains_to_visit = {}
    /\ collected_domains # {}
    /\ Cardinality(collected_domains) < target_count

\* The process_domain tasks that are executing.
Executing == {w \in Threads : wtask[w] = "process"}

\* C11: the coordinator draws a batch of exactly
\* min(2 * collect_threads, |domains_to_visit|) domains, all taken out of
\* domains_to_visit; it neither draws the next batch nor returns before every
\* task of the batch has finished; at no time do more than collect_threads
\* process_domain tasks execute.
C11_BatchBarrier ==
    /\ [](cpc \in {"loop", "done"} => (queue = << >> /\ Executing = {}))
    /\ [](Cardinality(Executing) <= collect_threads)
    /\ [][(cpc = "loop" /\ cpc' = "wait") =>
            /\ Len(queue') = Min(2 * collect_threads, Cardinality(domains_to_visit))
            /\ {queue'[i] : i \in 1..Len(queue')} \subseteq domains_to_visit
            /\ Cardinality({queue'[i] : i \in 1..Len(queue')}) = Len(queue')
            /\ domains_to_visit' = domains_to_visit \ {queue'[i] : i \in 1..Len(queue')}]_vars

\* C11 witness: a batch cut to 2 * collect_threads left domains behind in
\* domains_to_visit, every thread of the pool executes a task and a task of
\* the batch still waits for a thread.
C11_Witness ==
    /\ cpc = "wait"
    /\ domains_to_visit # {}
    /\ queue # << >>
    /\ Cardinality(Executing) = collect_threads

\* C12: batch_query_dns over a non-empty set of domains returns; total_count
\* is the number of distinct input domains, dns_results holds one result for
\* each input domain and for no other, and success_count is the number of
\* results with success = true, also when some domains failed.
C12_BatchResult ==
    /\ bpc # "raised"
    /\ (bpc = "done" /\ collected_domains # {}) =>
          /\ Len(domains_list) = Cardinality(collected_domains)
          /\ \A d \in Domains : (dns_results[d] # NoResult) <=> (d \in collected_domains)
          /\ success_count = Cardinality({d \in Domains : dns_results[d].success})

\* The query_dns tasks that are executing.
Querying == {w \in Threads : wtask[w] = "query"}

\* C13: the batches of batch_query_dns run strictly in sequence: while the
\* batch that starts at batch_index is in progress, every task of the earlier
\* batches has completed and no task of a later batch is submitted or
\* started; at most MaxWorkers tasks execute at a time.
C13_BatchesSequential ==
    /\ \A k \in 1..Len(domains_list) :
          /\ k > batch_index + batch_size => future[domains_list[k]] = "none"
          /\ k <= batch_index => future[domains_list[k]] \in {"true", "false", "raised"}
    /\ \A w \in Querying :
          /\ bpc = "wait"
          /\ \E k \in (batch_index + 1)..(batch_index + batch_size) :
                k <= Len(domains_list) /\ domains_list[k] = wdom[w]
    /\ Cardinality(Querying) <= dns_max_workers

\* C13 witness: a task of the second batch executes, after the first batch
\* has completed with one lookup failed.
C13_Witness ==
    /\ batch_index > 0
    /\ Querying # {}
    /\ \E d \in Domains : future[d] = "false"

\* ceil(Len(domains_list) / batch_size): the number of batches of the call.
NumBatches == (Len(domains_list) + batch_size - 1) \div batch_size

RecentAdmissions == InWindow(now)

\* C15: every resolution of a batch_query_dns call is admitted by one and the
\* same limiter: the limiter in use holds every admission of the last second
\* in its query_times, and no window of one second that ends at an admission
\* holds more admissions than the rate in force, also when the configuration
\* is saved while the call runs.
C15_OneLimiterPerCall ==
    /\ \A j \in RecentAdmissions :
          Cardinality({i \in RecentAdmissions : admitted[i] = admitted[j]})
             <= Cardinality({k \in 1..Len(query_times) : query_times[k] = admitted[j]})
    /\ Len(admitted) > 0 =>
          Cardinality(InWindow(admitted[Len(admitted)])) <= queries_per_second

\* C16: when the fast-path lookup of query_dns succeeds, the stored result has
\* success = true, exactly the address that lookup returned, error = None,
\* and the fallback query is not invoked.
C16_FastPathResult ==
    \A d \in Domains :
        lookups[d].fast = "ok" =>
            /\ dns_results[d].success
            /\ dns_results[d].ip_addresses = <<IpOf(d)>>
            /\ dns_results[d].error = NoError
            /\ lookups[d].fallback = "not_invoked"
            /\ future[d] = "true"

\* C16 witness: a query whose fast path succeeded has returned.
C16_Witness == \E d \in Domains : lookups[d].fast = "ok" /\ future[d] = "true"

\* C17: when the fast-path lookup fails and the fallback query returns a
\* sequence of addresses, the stored result has success = true, all returned
\* addresses in the returned order, and error = None.
C17_FallbackResult ==
    \A d \in Domains :
        (lookups[d].fast = "failed" /\ lookups[d].fallback = "answered") =>
            /\ dns_results[d].success
            /\ Len(dns_results[d].ip_addresses) = Len(lookups[d].answers)
            /\ \A i \in 1..Len(lookups[d].answers) :
                  dns_results[d].ip_addresses[i] = lookups[d].answers[i].address
            /\ dns_results[d].error = NoError

\* C17 witness: a fallback query answered two addresses after a failed fast
\* path.
C17_Witness ==
    \E d \in Domains :
        /\ lookups[d].fast = "failed"
        /\ lookups[d].fallback = "answered"
        /\ Len(lookups[d].answers) = 2
        /\ lookups[d].answers[1] # lookups[d].answers[2]

HasDotSuffix(d, base) ==
    /\ Len(d) > Len(base)
    /\ d[Len(d) - Len(base)] = "."
    /\ \A i \in 1..Len(base) : d[Len(d) - Len(base) + i] = base[i]

\* C19 as stated: is_subdomain(d) returns true exactly when only_subdomains
\* is false, or d equals base_domain, or d ends with '.' + base_domain.
C19_SubdomainExact ==
    \A w \in Threads :
        wpc[w] = "filtered" =>
            ((wdom[w] \in wlinks[w]) <=>
                \/ ~only_subdomains
                \/ wdom[w] = base_domain
                \/ HasDotSuffix(wdom[w], base_domain))

\* C19 amended: is_subdomain(d) returns true exactly when only_subdomains is
\* false, or base_domain is unset or empty, or d equals base_domain, or d
\* ends with '.' + base_domain; with only_subdomains false it returns true
\* for every d and every base_domain.
C19_SubdomainAmended ==
    \A w \in Threads :
        wpc[w] = "filtered" =>
            /\ (wdom[w] \in wlinks[w]) <=>
                  \/ ~only_subdomains
                  \/ base_domain = << >>
                  \/ wdom[w] = base_domain
                  \/ HasDotSuffix(wdom[w], base_domain)
            /\ ~only_subdomains => wdom[w] \in wlinks[w]

\* C19 witness: a domain that ends with the base string without the dot is
\* rejected, while a subdomain is accepted.
C19_Witness ==
    /\ only_subdomains
    /\ base_domain = D_seed
    /\ \E w \in Threads : wpc[w] = "filtered" /\ wdom[w] = D_near /\ wlinks[w] = {}
    /\ \E w \in Threads : wpc[w] = "filtered" /\ wdom[w] = D_sub /\ wlinks[w] = {D_sub}

\* The domains the crawl holds: the frontier, the popped batch, the tasks in
\* hand, the visited and the collected.
CrawlDomains ==
    domains_to_visit \cup visited_domains \cup collected_domains
        \cup {queue[i] : i \in 1..Len(queue)}
        \cup {wdom[w] : w \in {v \in Threads : wtask[v] = "process"}}

\* C20: in a crawl with only_subdomains = true and seed s, every domain that
\* enters domains_to_visit, visited_domains or collected_domains is s or ends
\* with '.' + s; a crawl of seed e.c whose page links a.e.c, ne.c and o.c, and
\* whose target is not reached before, ends with collected = {e.c, a.e.c}.
C20_CrawlScope ==
    (cpc # "idle" /\ start_only_subdomains) =>
        /\ \A d \in CrawlDomains : d = start_domain \/ HasDotSuffix(d, start_domain)
        /\ (/\ cpc = "done"
            /\ start_domain = D_seed
            /\ target_count >= 2
            /\ D_seed \notin fetch_failed)
           => (collected_domains = {D_seed, D_sub} /\ D_other \notin visited_domains)

\* C20 witness: the seed's page, which links domains outside the scope, was
\* fetched, and the crawl ended with the seed and its subdomain.
C20_Witness ==
    /\ cpc = "done"
    /\ start_only_subdomains
    /\ start_domain = D_seed
    /\ fetch_count[D_seed] = 1
    /\ D_seed \notin fetch_failed
    /\ {D_near, D_other} \subseteq PageLinks(D_seed)
    /\ collected_domains = {D_seed, D_sub}

\* The non-final checkpoint writes attempted so far, in order.
CheckpointAttempts ==
    SelectSeq(io_log, LAMBDA r : ~r.final /\ r.event \in {"saved", "save_failed"})

\* The sizes of collected_domains whose task has left the locked section.
SizesHandled ==
    IF \E w \in Threads : wpc[w] = "p_merge"
    THEN Cardinality(collected_domains) - 1
    ELSE Cardinality(collected_domains)

\* C21: during a crawl a non-final checkpoint write is attempted exactly once
\* for each multiple of the checkpoint interval that |collected_domains|
\* reaches, and at no other size, in every interleaving of the workers.
C21_CheckpointOncePerBoundary ==
    cpc # "idle" =>
        /\ Len(CheckpointAttempts) = SizesHandled \div CheckpointEvery
        /\ \A i \in 1..Len(CheckpointAttempts) :
              CheckpointAttempts[i].size = i * CheckpointEvery

\* C21 witness: two boundaries were reached by tasks of one batch, each with
\* its one attempt.
C21_Witness ==
    /\ Len(CheckpointAttempts) = 2
    /\ Cardinality(collected_domains) = 2 * CheckpointEvery
    /\ cpc = "wait"

\* The reports of the run with the given event.
ReportsOf(event) == {i \in 1..Len(io_log) : io_log[i].event = event}

\* C22 as stated: after collect_domains returns, the only checkpoint file of
\* the run is the final one, and it lists exactly collected_domains.
C22_FinalCheckpoint ==
    cpc = "done" =>
        /\ DOMAIN files = {current_file}
        /\ files[current_file] = collected_domains

\* C22 amended: on exit of the crawl loop with collected_domains not empty a
\* final checkpoint write is attempted, and an earlier checkpoint file under
\* another name is removed first; when the removal (if any) and the final
\* write succeeded, the only checkpoint file of the run after the return is
\* the final one, named after the final count, and it lists exactly
\* collected_domains.  With nothing collected no file is written.
C22_FinalCheckpointAmended ==
    cpc = "done" =>
        IF collected_domains = {}
        THEN files = << >>
        ELSE /\ \E i \in ReportsOf("saved") \cup ReportsOf("save_failed") :
                    /\ io_log[i].final
                    /\ i = Len(io_log)
                    /\ io_log[i].file = current_file
             /\ current_file.count = Cardinality(collected_domains)
             /\ \A p \in DOMAIN files \ {current_file} : ReportsOf("remove_failed") # {}
             /\ (io_log[Len(io_log)].event = "saved" /\ ReportsOf("remove_failed") = {})
                    => /\ DOMAIN files = {current_file}
                       /\ files[current_file] = collected_domains

\* C22 witness: the run wrote a checkpoint under the name of an earlier count,
\* the final save removed it and left the final file alone.
C22_Witness ==
    /\ cpc = "done"
    /\ \E i \in ReportsOf("removed") :
          io_log[i].file.count < Cardinality(collected_domains)
    /\ DOMAIN files = {current_file}
    /\ files[current_file] = collected_domains

\* The trials of a tuned parameter k scores at least as high as trial j.
ScoresAtLeast(trials, k, j) ==
    trials[k].queries_per_second[1] * trials[k].success_rate[1]
            * trials[j].queries_per_second[2] * trials[j].success_rate[2]
        >= trials[j].queries_per_second[1] * trials[j].success_rate[1]
            * trials[k].queries_per_second[2] * trials[k].success_rate[2]

\* C23: run_tests tunes the parameters one at a time in range order; a trial
\* uses the values already selected for the parameters tuned before it and the
\* initial values of those not yet tuned; after its trials a parameter's value
\* in default_params is a candidate of maximal score among them, so when the
\* larger candidate always scores higher the larger one is selected.
C23_CoordinateAscent ==
    tpc # "idle" =>
        /\ DOMAIN all_param_results = {ParamOrder[i] : i \in 1..(param_index - 1)}
        /\ \A i \in 1..Len(ParamOrder) :
              LET q == ParamOrder[i] IN
              IF i < param_index
              THEN LET trials == all_param_results[q] IN
                   /\ Len(trials) = Len(param_ranges[q])
                   /\ \A k \in 1..Len(trials) : trials[k].param_value = param_ranges[q][k]
                   /\ \E k \in 1..Len(trials) :
                         /\ default_params[q] = trials[k].param_value
                         /\ \A j \in 1..Len(trials) : ScoresAtLeast(trials, k, j)
                   /\ (\A k \in 1..(Len(trials) - 1) :
                          /\ trials[k].param_value < trials[k + 1].param_value
                          /\ ~ScoresAtLeast(trials, k, k + 1))
                        => default_params[q] = trials[Len(trials)].param_value
              ELSE default_params[q] = initial_params[q]
        /\ \A k \in 1..Len(param_results) :
              param_results[k].param_value = param_ranges[ParamOrder[param_index]][k]
        /\ test_result # NoTrial =>
              /\ test_result.param_name = ParamOrder[param_index]
              /\ \A i \in 1..Len(ParamOrder) :
                    LET q == ParamOrder[i] IN
                    test_result.test_params[q] =
                        IF i < param_index THEN default_params[q]
                        ELSE IF i = param_index THEN test_result.param_value
                        ELSE initial_params[q]

\* C23 witness: the larger candidate of the first parameter scored higher and
\* was selected, and a trial of the second parameter runs with it.
C23_Witness ==
    /\ param_index = 2
    /\ test_result # NoTrial
    /\ ~ScoresAtLeast(all_param_results["QueriesPerSecond"], 1, 2)
    /\ default_params["QueriesPerSecond"] = 10
    /\ test_result.test_params["QueriesPerSecond"] = 10
    /\ initial_params["QueriesPerSecond"] = 12

\* The indices of the successful queries of a trial, and the sum of the
\* query times over a set of indices.
SuccessesOf(results) == {i \in 1..Len(results) : results[i].success}
RECURSIVE TimeOver(_, _)
TimeOver(results, indices) ==
    IF indices = {} THEN 0
    ELSE LET i == CHOOSE j \in indices : TRUE
         IN  results[i].query_time + TimeOver(results, indices \ {i})

\* C24: the trial just measured has sample_size = min(cap, number of test
\* domains); its success_rate is successes / sample and lies in [0, 1]; its
\* average latency is the mean of the successful queries' times and its median
\* has at least half of the successful times on either side; with no success
\* (or an empty sample) the three are 0; and the trial is recorded, the run
\* not having raised.
C24_TrialStatistics ==
    test_result # NoTrial =>
        LET results == test_result.results
            n == Len(results)
            successes == SuccessesOf(results)
            rate == test_result.success_rate
            avg == test_result.avg_query_time
            median == test_result.median_query_time
        IN  /\ n = Min(SampleCap, test_domains)
            /\ test_result.sample_size = n
            /\ rate[2] > 0 /\ 0 <= rate[1] /\ rate[1] <= rate[2]
            /\ n > 0 => rate[1] * n = Cardinality(successes) * rate[2]
            /\ avg[2] > 0 /\ median[2] > 0
            /\ successes # {} =>
                  /\ avg[1] * Cardinality(successes) = TimeOver(results, successes) * avg[2]
                  /\ 2 * Cardinality({i \in successes :
                            results[i].query_time * median[2] <= median[1]})
                        >= Cardinality(successes)
                  /\ 2 * Cardinality({i \in successes :
                            results[i].query_time * median[2] >= median[1]})
                        >= Cardinality(successes)
            /\ successes = {} => rate[1] = 0 /\ avg[1] = 0 /\ median[1] = 0
            /\ tpc # "raised"
            /\ param_results # << >>
            /\ param_results[Len(param_results)] = Recorded(test_result)

\* C24 witness: the second trial of a parameter had a full sample and no
\* success and is recorded with rate 0 after a trial that had successes, the
\* slowest of which was not the failure's wait.
C24_Witness ==
    /\ test_result # NoTrial
    /\ Len(test_result.results) = SampleCap
    /\ SuccessesOf(test_result.results) = {}
    /\ test_result.avg_query_time = Zero
    /\ Len(param_results) = 2
    /\ param_results[1].success_rate[1] > 0
    /\ param_results[2].success_rate[1] = 0

\* The three artifacts that run_tests leaves for the user.
TuningArtifacts == {BestParamsFile, OptimalConfigFile, ReadableResultsFile}

\* C25: an artifact of the tuning run exists only when the trials of every
\* parameter are over; the best-parameters file and the configuration artifact
\* hold, for every parameter, the value selected for it, a value whose trial no
\* other trial of the parameter outscores; and the report lists, for every
\* parameter, that parameter's trials, none before one of higher score.
C25_ArtifactsAfterTrials ==
    /\ (DOMAIN artifacts) \cap TuningArtifacts # {} =>
          /\ param_index > Len(ParamOrder)
          /\ DOMAIN all_param_results = ParamNames
          /\ \A p \in ParamNames : Len(all_param_results[p]) = Len(param_ranges[p])
    /\ \A path \in (DOMAIN artifacts) \cap TuningArtifacts :
          \A p \in ParamNames :
             /\ artifacts[path].params[p] = Digits(default_params[p])
             /\ \E k \in 1..Len(all_param_results[p]) :
                   /\ all_param_results[p][k].param_value = default_params[p]
                   /\ \A j \in 1..Len(all_param_results[p]) :
                         ScoresAtLeast(all_param_results[p], k, j)
    /\ ReadableResultsFile \in DOMAIN artifacts =>
          LET rows == artifacts[ReadableResultsFile].rows IN
          /\ DOMAIN rows = ParamNames
          /\ \A p \in ParamNames :
                /\ Len(rows[p]) = Len(all_param_results[p])
                /\ {rows[p][k] : k \in 1..Len(rows[p])}
                      = {all_param_results[p][k] : k \in 1..Len(rows[p])}
                /\ \A k \in 1..(Len(rows[p]) - 1) : ScoresAtLeast(rows[p], k, k + 1)

\* C25 witness: the run ended with the three artifacts written, and the report
\* of a parameter lists its second trial first, the one that scored higher and
\* whose value the two other artifacts hold.
C25_Witness ==
    /\ tpc = "done"
    /\ TuningArtifacts \subseteq DOMAIN artifacts
    /\ ~ScoresAtLeast(all_param_results["MaxWorkers"], 1, 2)
    /\ artifacts[ReadableResultsFile].rows["MaxWorkers"][1].param_value = 10
    /\ artifacts[BestParamsFile].params["MaxWorkers"] = <<1, 0>>
    /\ artifacts[OptimalConfigFile].params["MaxWorkers"] = <<1, 0>>

\* C26: every write of a tuning artifact, failed or not, ends in a message to
\* the observer and none in an exception that leaves run_tests; after a failed
\* write the run goes on and the selected parameters are as they were.
C26_FailedWriteReported ==
    /\ \A i \in 1..Len(tuning_log) : tuning_log[i].event \in {"saved", "save_failed"}
    /\ (\E i \in 1..Len(tuning_log) : tuning_log[i].event # "saved") =>
          /\ tpc \in {"testing", "done"}
          /\ \A i \in 1..Len(ParamOrder) :
                i >= param_index => default_params[ParamOrder[i]] = initial_params[ParamOrder[i]]

\* C27: with an invalid rate (QueriesPerSecond <= 0) batch_query_dns hands no
\* query to the pool: no future exists, no worker leaves its idle state and no
\* lookup is admitted or answered.
C27_InvalidConfigDispatchesNothing ==
    queries_per_second <= 0 =>
        /\ \A d \in Domains : future[d] = "none"
        /\ \A w \in Threads : wpc[w] = "idle" /\ wtask[w] = "none"
        /\ queue = << >>
        /\ admitted = << >>

\* The files the loader cannot read or does not recognise.
MalformedKinds == UnreadableKinds \cup RejectedKinds

\* C28: when load_domains_from_file was called on a missing, unreadable or
\* unrecognised file it returned the empty set, emitted a message that names
\* the failure, raised nothing, and collected_domains is what it was before
\* the call.
C28_MalformedInputIsEmpty ==
    (loaded.called /\ file_path.kind \in MalformedKinds) =>
        /\ loaded.returned = {}
        /\ collected_domains = loaded.before
        /\ \E i \in 1..Len(load_messages) :
              load_messages[i] \in {"file_not_found", "load_error", "not_json_or_csv",
                                    "unexpected_format"}
        /\ bpc = "done"

\* C28 witness: a text file that lists names but is neither JSON nor .csv was
\* given to a tool that holds a domain: nothing was taken from it.
C28_Witness ==
    /\ loaded.called
    /\ file_path.kind = "text"
    /\ file_path.domains # {}
    /\ collected_domains = {D_seed}
    /\ load_messages = <<"not_json_or_csv">>

\* C29: after batch_query_dns has returned, dns_results holds no entry that was
\* written before the call started, whatever the set of domains to query,
\* the empty one included.
C29_ResultsClearedAtStart ==
    bpc = "done" => \A d \in Domains : dns_results[d] # OldResult(d)

\* C30: the domains a worker is about to insert into domains_to_visit (it
\* holds the lock and has filtered its links) are absent from visited_domains.
C30_InsertedOnlyIfUnvisited ==
    \A w \in Threads : wpc[w] = "p_merge" => wlinks[w] \cap visited_domains = {}

\* C31: a crawl worker that is about to mark its domain in visited_domains
\* (it has just tested the membership) or to merge its links into
\* domains_to_visit (it has just inserted into collected_domains) holds
\* self.lock.
C31_FrontierUnderLock ==
    \A w \in Threads : wpc[w] \in {"p_mark", "p_merge"} => lock = w

\* C32: no checkpoint is written, and no message about one is handed to the
\* observer, while a worker holds self.lock.
C32_NoIoUnderLock ==
    \A i \in 1..Len(io_log) : ~io_log[i].locked

\* C33: whenever the coordinator is at the loop head, where it reads and pops
\* domains_to_visit without the lock, no process_domain task is queued or
\* running, and no worker holds the lock.
C33_PopWithoutTasks ==
    cpc = "loop" =>
        /\ queue = << >>
        /\ \A w \in Threads : wtask[w] = "none" /\ wpc[w] = "idle"
        /\ lock = NoThread

\* C33 witness: the coordinator is back at the loop head after workers merged
\* links into domains_to_visit, and is about to pop again.
C33_Witness ==
    /\ cpc = "loop"
    /\ Cardinality(collected_domains) >= 1
    /\ domains_to_visit # {}
    /\ LoopCondition

\* C34: no task is queued for a domain that an earlier task of the run has
\* already marked visited: a domain is handed to the pool at most once.
C34_DispatchedOnce ==
    \A i \in 1..Len(queue) : queue[i] \notin visited_domains

\* C35: with a target of at least 1, when collect_domains has returned the
\* number of collected domains is at most target_count - 1 + 2 * collect_threads.
C35_OvershootBounded ==
    (cpc = "done" /\ target_count >= 1) =>
        Cardinality(collected_domains) <= target_count - 1 + 2 * collect_threads

\* C35 witness: the crawl returned having overshot its target by the whole of
\* its last batch: the bound is met with equality.
C35_Witness ==
    /\ cpc = "done"
    /\ target_count >= 1
    /\ Cardinality(collected_domains) > target_count
    /\ Cardinality(collected_domains) = target_count - 1 + 2 * collect_threads

\* C36: once a checkpoint write of the run has succeeded, a checkpoint file of
\* the run exists at every later point, also after a final save whose write
\* failed.
C36_CheckpointNeverLost ==
    (\E i \in 1..Len(io_log) : io_log[i].event = "saved") => DOMAIN files # {}

\* C37: when batch_query_dns over a non-empty set of domains has ended, every
\* input domain was submitted to the pool and the limiter admitted as many
\* calls as there are input domains.
C37_OneAdmissionPerDomain ==
    (bpc \in {"done", "raised"} /\ domains_list # << >>) =>
        /\ \A d \in collected_domains : future[d] # "none"
        /\ Len(admitted) = Len(domains_list)

C39_TieKeepsFirst ==
    \A i \in 1..Len(ParamOrder) :
        i < param_index =>
            LET q == ParamOrder[i]
                trials == all_param_results[q]
            IN  /\ \E k \in 1..Len(trials) :
                      /\ default_params[q] = trials[k].param_value
                      /\ \A j \in 1..Len(trials) : ScoresAtLeast(trials, k, j)
                      /\ \A j \in 1..(k - 1) : ~ScoresAtLeast(trials, j, k)
                /\ (\A j \in 1..Len(trials) :
                       trials[j].queries_per_second[1] * trials[j].success_rate[1] = 0)
                     => default_params[q] = param_ranges[q][1]

\* C39 witness: a parameter whose two candidates tied above 0 got the first of
\* them, and another, none of whose trials succeeded, got the first value of
\* its range in place of the configured 12.
C39_Witness ==
    /\ param_index > Len(ParamOrder)
    /\ LET first == all_param_results["QueriesPerSecond"]
           second == all_param_results["MaxWorkers"]
       IN  /\ first[1].success_rate[1] > 0 /\ first[1].queries_per_second[1] > 0
           /\ ScoresAtLeast(first, 1, 2) /\ ScoresAtLeast(first, 2, 1)
           /\ \A j \in 1..2 : second[j].success_rate[1] = 0
    /\ default_params["QueriesPerSecond"] = 5
    /\ default_params["MaxWorkers"] = 5
    /\ initial_params["MaxWorkers"] = 12

C9_NonPositiveRateNeverRaises ==
    queries_per_second <= 0 => \A w \in Threads : wpc[w] # "raised"

====
